---- MODULE Spec2Model ----
(***************************************************************************)
(* Random3Dcity: the CityGML generator (generateCityGML.py).               *)
(*                                                                         *)
(* The generator reads one building description after another and calls,   *)
(* for each, a fixed list of constructors that emit the building in many   *)
(* levels of detail.  The model follows one run of that loop: a building   *)
(* is read, the first LOD3 call measures the eaves and the recalculated    *)
(* overhang, the footprint variants are derived, and the constructors are  *)
(* called one after another; each call replaces the emitted shell.         *)
(*                                                                         *)
(* Numbers.  The program computes in floats; the model computes in exact   *)
(* rationals <<numerator, denominator>> kept in lowest terms, so that two  *)
(* coordinates are equal in the model exactly when their values are equal. *)
(* Rounding of the float operations is not modelled.                       *)
(*                                                                         *)
(* Strings.  A GML point string "x y z" is the sequence of its three       *)
(* coordinate tokens, a ring string is the concatenation of its point      *)
(* strings.  Python prints a float with the shortest text that reads back  *)
(* to the same float, so a token stands for its value.                     *)
(***************************************************************************)
EXTENDS Integers, Sequences, FiniteSets, TLC

(***************************************************************************)
(* Rational arithmetic                                                     *)
(***************************************************************************)
RECURSIVE GCD(_, _)
GCD(a, b) == IF b = 0 THEN a ELSE GCD(b, a % b)

Abs(n) == IF n < 0 THEN -n ELSE n

\* n/d in lowest terms with a positive denominator (d # 0)
Rat(n, d) ==
    LET g == GCD(Abs(n), Abs(d))
        s == IF d < 0 THEN -1 ELSE 1
    IN  <<(s * n) \div g, (s * d) \div g>>

\* a value bound to a name once: Let(v, LAMBDA n : e) is e with n standing
\* for the value v
Let(v, F(_)) == F(v)

Int2R(n) == <<n, 1>>
Zero == <<0, 1>>
Plus(a, b) == Rat(a[1] * b[2] + b[1] * a[2], a[2] * b[2])
Minus(a, b) == Rat(a[1] * b[2] - b[1] * a[2], a[2] * b[2])
Times(a, b) == Rat(a[1] * b[1], a[2] * b[2])
Div(a, b) == Rat(a[1] * b[2], a[2] * b[1])
Less(a, b) == a[1] * b[2] < b[1] * a[2]
Leq(a, b) == a[1] * b[2] <= b[1] * a[2]
Half == <<1, 2>>
Two == <<2, 1>>

\* Python's None for an optional number or an optional string
None == <<>>
\* Python truth value of an optional number: None and 0.0 are false
Truthy(v) == v # None /\ v # Zero

\* An exception stands in the place of the result of the call that raised
\* it: a list where the call returns a list, a record where it returns a
\* tuple of results.
ValueError == <<"ValueError">>
UnboundLocalError == [raised |-> "UnboundLocalError"]
IndexError == [raised |-> "IndexError"]
ZeroDivisionError == <<"ZeroDivisionError">>

(***************************************************************************)
(* GML strings                                                             *)
(***************************************************************************)
\* "%s %s %s" % (x, y, z)
GMLPointList(point) == <<point[1], point[2], point[3]>>

\* the list of [x, y, z] token triples of a string of points
GMLstring2points(pointstring) ==
    [i \in 1..(Len(pointstring) \div 3) |->
        <<pointstring[3 * i - 2], pointstring[3 * i - 1], pointstring[3 * i]>>]

RECURSIVE multiGMLPointList(_)
multiGMLPointList(points) ==
    IF points = <<>> THEN <<>>
    ELSE GMLPointList(Head(points)) \o multiGMLPointList(Tail(points))

GMLreverser(pointlist) ==
    [i \in 1..Len(pointlist) |-> pointlist[Len(pointlist) + 1 - i]]

GMLreversedRing(r) == multiGMLPointList(GMLreverser(GMLstring2points(r)))

(***************************************************************************)
(* Body, ridge and overhang vertices                                       *)
(***************************************************************************)
\* corner i of the box at o with sizes x, y, z: 0..3 floor ring, 4..7 top ring
Corner(o, x, y, z, i) ==
    <<IF i \in {1, 2, 5, 6} THEN Plus(o[1], x) ELSE o[1],
      IF i \in {2, 3, 6, 7} THEN Plus(o[2], y) ELSE o[2],
      IF i >= 4 THEN Plus(o[3], z) ELSE o[3]>>

verticesBody_noTop(o, x, y, z, h, top, override) ==
    [i \in 0..7 |-> GMLPointList(Corner(o, x, y, Zero, i))]

verticesBody(o, x, y, z, h, top, override) ==
    LET h0 == IF Truthy(h) THEN h ELSE Zero
        zz == IF Truthy(top)
                THEN IF Less(top, <<3, 2>>) THEN Plus(z, Times(top, h0)) ELSE z
                ELSE IF top = None
                       THEN IF Truthy(override) THEN override ELSE Plus(z, h0)
                       ELSE z
    IN  [i \in 0..7 |-> GMLPointList(Corner(o, x, y, zz, i))]

verticesBodyList(o, x, y, z, h, top) ==
    LET h0 == IF Truthy(h) THEN h ELSE Zero
        zz == IF Truthy(top) THEN Plus(z, Times(top, h0)) ELSE z
    IN  [i \in 0..7 |-> Corner(o, x, y, zz, i)]

verticesRoof(b, h, rtype, width) ==
    LET o == b[1]
        x == b[2]
        y == b[3]
        z == b[4]
        h0 == IF Truthy(h) THEN h ELSE Zero
        top == Plus(Plus(o[3], z), h0)
        mid == Plus(o[1], Times(Half, x))
    IN  CASE rtype = "Gabled" ->
               <<GMLPointList(<<mid, o[2], top>>),
                 GMLPointList(<<mid, Plus(o[2], y), top>>)>>
          [] rtype = "Shed" ->
               <<GMLPointList(<<o[1], o[2], top>>),
                 GMLPointList(<<o[1], Plus(o[2], y), top>>)>>
          [] rtype \in {"Hipped", "Pyramidal"} ->
               <<GMLPointList(<<mid, Plus(o[2], width), top>>),
                 GMLPointList(<<mid, Minus(Plus(o[2], y), width), top>>)>>
          [] OTHER -> <<>>

\* fields of the result of verticesOverhangs: the overhang rings, their
\* interior rings (None where the ring has no hole), the elevation of the
\* projected eaves, and the y-overhang actually used
\* the drop taken over the whole width for every sloped roof
ovhzOf_fullWidth(x, h, rtype, ovhx) ==
    IF rtype = "Flat" THEN Zero
    ELSE IF Less(Zero, ovhx) THEN Div(h, Div(x, ovhx)) ELSE Zero

ovhzOf(x, h, rtype, ovhx) ==
    IF rtype = "Flat" THEN Zero
    ELSE IF Less(Zero, ovhx)
           THEN LET fx == IF rtype = "Shed" THEN Div(x, ovhx)
                          ELSE Div(Times(Half, x), ovhx)
                IN  Div(h, fx)
           ELSE Zero

ovhyOf_input(x, h, rtype, ovh, width) == ovh[2]

ovhyOf(x, h, rtype, ovh, width) ==
    IF rtype \in {"Hipped", "Pyramidal"}
      THEN IF Less(Zero, ovh[1])
             THEN LET fy == Div(h, ovhzOf(x, h, rtype, ovh[1]))
                  IN  Div(width, fy)
             ELSE Zero
      ELSE ovh[2]

verticesOverhangs(b, p, h, rtype, ovh, r, width) ==
    LET o == b[1]
        x == b[2]
        y == b[3]
        z == b[4]
        ovhx == ovh[1]
        ovhz == ovhzOf(x, h, rtype, ovhx)
    IN  Let(ovhyOf(x, h, rtype, ovh, width), LAMBDA ovhy :
    LET W == Minus(o[1], ovhx)
    IN  Let(Plus(Plus(o[1], x), ovhx), LAMBDA E :
    Let(Minus(o[2], ovhy), LAMBDA S :
    Let(Plus(Plus(o[2], y), ovhy), LAMBDA N :
    LET mid == Plus(o[1], Times(Half, x))
        ez == Plus(o[3], z)
    IN  Let(Minus(ez, ovhz), LAMBDA low :
    LET top == Plus(ez, IF h = None THEN Zero ELSE h)
        high == Plus(top, ovhz)
        P(a, c, e) == GMLPointList(<<a, c, e>>)
    IN  CASE rtype = "Gabled" ->
               [overhangs |->
                  <<r[1] \o P(mid, S, top) \o P(E, S, low) \o P(E, N, low)
                      \o P(mid, N, top) \o r[2] \o p[6] \o p[5] \o r[1],
                    r[2] \o P(mid, N, top) \o P(W, N, low) \o P(W, S, low)
                      \o P(mid, S, top) \o r[1] \o p[4] \o p[7] \o r[2]>>,
                interior |-> <<None, None>>,
                eaves |-> low,
                ovhy_recalculated |-> ovhy]
          [] rtype = "Shed" ->
               [overhangs |->
                  <<P(W, S, high) \o P(E, S, low) \o P(E, N, low)
                      \o P(W, N, high) \o P(W, S, high)>>,
                interior |-> <<r[1] \o r[2] \o p[6] \o p[5] \o r[1]>>,
                eaves |-> low,
                ovhy_recalculated |-> ovhy]
          [] rtype \in {"Hipped", "Pyramidal"} ->
               [overhangs |->
                  <<P(W, S, low) \o P(E, S, low) \o p[5] \o p[4] \o P(W, S, low),
                    P(E, S, low) \o P(E, N, low) \o p[6] \o p[5] \o P(E, S, low),
                    P(W, N, low) \o p[7] \o p[6] \o P(E, N, low) \o P(W, N, low),
                    P(W, S, low) \o p[4] \o p[7] \o P(W, N, low) \o P(W, S, low)>>,
                interior |-> <<None, None, None, None>>,
                eaves |-> low,
                ovhy_recalculated |-> ovhy]
          [] rtype = "Flat" ->
               [overhangs |->
                  <<P(W, S, ez) \o P(E, S, ez) \o P(E, N, ez) \o P(W, N, ez)
                      \o P(W, S, ez)>>,
                interior |-> <<p[4] \o p[7] \o p[6] \o p[5] \o p[4]>>,
                eaves |-> ez,
                ovhy_recalculated |-> ovhy]
          \* no branch assigns eaves, and the return statement reads it
          [] OTHER -> UnboundLocalError)))))

(***************************************************************************)
(* Emitted polygons                                                        *)
(*                                                                         *)
(* The program appends XML elements to the element it is given; the model  *)
(* returns the polygons an operation emits, in emission order.  A polygon  *)
(* records its exterior ring, its interior rings, the semantic class of    *)
(* the boundary surface or opening it belongs to ("" in a plain shell),    *)
(* whether it is a member of the geometry or the polygon of a Door/Window  *)
(* opening, the exterior ring of the surface an opening is attached to,    *)
(* and the kind of installation it belongs to ("" for the building).       *)
(***************************************************************************)
RECURSIVE Concat(_)
Concat(ss) == IF ss = <<>> THEN <<>> ELSE Head(ss) \o Concat(Tail(ss))

Polygon(coords, interior, sem, cls, host) ==
    [ext |-> coords, int |-> interior, sem |-> sem, cls |-> cls,
     host |-> host, kind |-> ""]

OfKind(kind, polys) == [i \in 1..Len(polys) |-> [polys[i] EXCEPT !.kind = kind]]

\* the same for the polygons that have no kind yet
OfKindIfNone(kind, polys) ==
    [i \in 1..Len(polys) |->
        IF polys[i].kind = "" THEN [polys[i] EXCEPT !.kind = kind] ELSE polys[i]]

\* "if interior and interior[0] is not None: for hole in interior"
interiorRings(interior) ==
    IF interior # <<>> /\ interior[1] # None THEN interior ELSE <<>>

plainMultiSurface(coords, interior) ==
    <<Polygon(coords, interiorRings(interior), "", "member", None)>>

addsurface(coords, interior) ==
    <<Polygon(coords, interiorRings(interior), "", "member", None)>>

\* the reveals and inset rings added to a surface that is left without holes
addSurfaceWithEmbrasure_uncut(coords, interior, embO) ==
    <<Polygon(coords, <<>>, "", "member", None)>>
    \o Concat([k \in 1..Len(embO) |->
        [s \in 1..Len(embO[k].surfaces) |->
            Polygon(embO[k].surfaces[s], <<>>, "", "member", None)]
        \o [s \in 1..Len(embO[k].openings) |->
            Polygon(embO[k].openings[s], <<>>, "", "member", None)]])

addSurfaceWithEmbrasure(coords, interior, embO) ==
    <<Polygon(coords, interiorRings(interior), "", "member", None)>>
    \o Concat([k \in 1..Len(embO) |->
        [s \in 1..Len(embO[k].surfaces) |->
            Polygon(embO[k].surfaces[s], <<>>, "", "member", None)]
        \o [s \in 1..Len(embO[k].openings) |->
            Polygon(embO[k].openings[s], <<>>, "", "member", None)]])

\* opening is None or the pair <<door slot, windows>> of one wall; the door
\* slot is empty or holds the door
multiSurface(coords, semantics, interior, opening) ==
    <<Polygon(coords, interiorRings(interior), semantics, "member", None)>>
    \o (IF opening # None
          THEN [k \in 1..Len(opening[1]) |->
                   Polygon(GMLreversedRing(opening[1][k].ring), <<>>, "Door",
                           "opening", coords)]
               \o [k \in 1..Len(opening[2]) |->
                   Polygon(GMLreversedRing(opening[2][k].ring), <<>>, "Window",
                           "opening", coords)]
          ELSE <<>>)

multiSurface2(coords, semantics, interior, window) ==
    <<Polygon(coords, interiorRings(interior), semantics, "member", None)>>
    \o [k \in 1..Len(window) |->
           Polygon(window[k], <<>>, "Window", "opening", coords)]

multiSurfaceWithEmbrasure(coords, semantics, interior, embO) ==
    <<Polygon(coords, interiorRings(interior), semantics, "member", None)>>
    \o Concat([k \in 1..Len(embO) |->
        [s \in 1..Len(embO[k].surfaces) |->
            Polygon(embO[k].surfaces[s], <<>>, semantics, "member", None)]
        \o [s \in 1..Len(embO[k].openings) |->
            Polygon(embO[k].openings[s], <<>>, embO[k].type, "opening", coords)]])

roofOverhangs(overhangs, interiors, semantics) ==
    OfKind("overhang",
        Concat([k \in 1..Len(overhangs) |->
            IF semantics
              THEN multiSurface(overhangs[k], "RoofSurface", interiors, None)
              ELSE plainMultiSurface(overhangs[k], None)]))

(***************************************************************************)
(* Doors and windows                                                       *)
(*                                                                         *)
(* A door or window is a record [wall, origin, size, ring]; origin and     *)
(* size are pairs.  p is the numeric corner list of the body.  The list of *)
(* openings handed to a roof constructor is None or the pair               *)
(* <<door slot, wall windows>>.                                            *)
(***************************************************************************)
\* the corner an opening of a wall is measured from, and the direction in
\* which its X runs: walls 0 and 1 run in +x and +y, walls 2 and 3 in -x, -y
wallPoint(p, wall, along, up) ==
    CASE wall = 0 -> <<Plus(p[0][1], along), p[0][2], Plus(p[0][3], up)>>
      [] wall = 1 -> <<p[1][1], Plus(p[1][2], along), Plus(p[1][3], up)>>
      [] wall = 2 -> <<Minus(p[2][1], along), p[2][2], Plus(p[2][3], up)>>
      [] wall = 3 -> <<p[3][1], Minus(p[3][2], along), Plus(p[3][3], up)>>

\* the same point moved out of the building by the embrasure depth
insetPoint_outward(p, wall, along, up, embrasure) ==
    Let(wallPoint(p, wall, along, up), LAMBDA w :
        CASE wall = 0 -> <<w[1], Minus(w[2], embrasure), w[3]>>
          [] wall = 1 -> <<Plus(w[1], embrasure), w[2], w[3]>>
          [] wall = 2 -> <<w[1], Plus(w[2], embrasure), w[3]>>
          [] wall = 3 -> <<Minus(w[1], embrasure), w[2], w[3]>>)

\* the same point moved into the building by the embrasure depth
insetPoint(p, wall, along, up, embrasure) ==
    Let(wallPoint(p, wall, along, up), LAMBDA w :
        CASE wall = 0 -> <<w[1], Plus(w[2], embrasure), w[3]>>
          [] wall = 1 -> <<Minus(w[1], embrasure), w[2], w[3]>>
          [] wall = 2 -> <<w[1], Minus(w[2], embrasure), w[3]>>
          [] wall = 3 -> <<Plus(w[1], embrasure), w[2], w[3]>>)

\* an opening ring measured from the first corner of the wall on every wall
openingRing_leftToRight(op, p) ==
    LET X == op.origin[1]
        Y == op.origin[2]
        XW == Plus(X, op.size[1])
        YH == Plus(Y, op.size[2])
        at(along, up) ==
            IF op.wall \in {0, 2}
              THEN GMLPointList(<<Plus(p[op.wall][1], along), p[op.wall][2],
                                  Plus(p[op.wall][3], up)>>)
              ELSE GMLPointList(<<p[op.wall][1], Plus(p[op.wall][2], along),
                                  Plus(p[op.wall][3], up)>>)
    IN  IF op.wall \notin 0..3 THEN ValueError
        ELSE at(X, Y) \o at(X, YH) \o at(XW, YH) \o at(XW, Y) \o at(X, Y)

\* an opening ring that takes every wall other than 0, 1 and 2 for wall 3
openingRing_lastWall(op, p) ==
    LET X == op.origin[1]
        Y == op.origin[2]
        XW == Plus(X, op.size[1])
        YH == Plus(Y, op.size[2])
        wall == IF op.wall \in {0, 1, 2} THEN op.wall ELSE 3
    IN  GMLPointList(wallPoint(p, wall, X, Y))
        \o GMLPointList(wallPoint(p, wall, X, YH))
        \o GMLPointList(wallPoint(p, wall, XW, YH))
        \o GMLPointList(wallPoint(p, wall, XW, Y))
        \o GMLPointList(wallPoint(p, wall, X, Y))

\* the ring of an opening on walls 0..3; any other wall raises ValueError
openingRing(op, p) ==
    LET X == op.origin[1]
        Y == op.origin[2]
        XW == Plus(X, op.size[1])
        YH == Plus(Y, op.size[2])
    IN  IF op.wall \in {0, 1, 2, 3}
          THEN GMLPointList(wallPoint(p, op.wall, X, Y))
               \o GMLPointList(wallPoint(p, op.wall, X, YH))
               \o GMLPointList(wallPoint(p, op.wall, XW, YH))
               \o GMLPointList(wallPoint(p, op.wall, XW, Y))
               \o GMLPointList(wallPoint(p, op.wall, X, Y))
          ELSE ValueError

\* the four reveals and the inset ring of one opening
embrasureOf(op, currentType, p, embrasure) ==
    LET X == op.origin[1]
        Y == op.origin[2]
        XW == Plus(X, op.size[1])
        YH == Plus(Y, op.size[2])
    IN  Let(GMLPointList(wallPoint(p, op.wall, X, Y)), LAMBDA W0 :
    LET W1 == GMLPointList(wallPoint(p, op.wall, XW, Y))
    IN  Let(GMLPointList(wallPoint(p, op.wall, XW, YH)), LAMBDA W2 :
    LET W3 == GMLPointList(wallPoint(p, op.wall, X, YH))
    IN  Let(GMLPointList(insetPoint(p, op.wall, X, Y, embrasure)), LAMBDA O0 :
    Let(GMLPointList(insetPoint(p, op.wall, XW, Y, embrasure)), LAMBDA O1 :
    Let(GMLPointList(insetPoint(p, op.wall, XW, YH, embrasure)), LAMBDA O2 :
    Let(GMLPointList(insetPoint(p, op.wall, X, YH, embrasure)), LAMBDA O3 :
        [surfaces |-> <<W0 \o O0 \o O3 \o W3 \o W0,
                        W0 \o W1 \o O1 \o O0 \o W0,
                        W2 \o O2 \o O1 \o W1 \o W2,
                        W2 \o W3 \o O3 \o O2 \o W2>>,
         openings |-> <<O0 \o O1 \o O2 \o O3 \o O0>>,
         type |-> currentType]))))))

\* an embrasure list that leaves out the openings of an unknown wall
embrasuresGeometry_dropsUnknown(openings, p, embrasure) ==
    LET onWall(ops, w) == SelectSeq(ops, LAMBDA op : op.wall = w)
        of(ops, t) == [k \in 1..Len(ops) |-> embrasureOf(ops[k], t, p, embrasure)]
    IN  [i \in 1..4 |-> of(onWall(openings[1], i - 1), "Door")
                        \o of(onWall(openings[2], i - 1), "Window")]

\* per wall the embrasures of its openings; an opening of a wall other than
\* 0..3 raises ValueError
embrasuresGeometry(openings, p, embrasure) ==
    LET onWall(ops, w) == SelectSeq(ops, LAMBDA op : op.wall = w)
        of(ops, t) == [k \in 1..Len(ops) |-> embrasureOf(ops[k], t, p, embrasure)]
        unknown(ops) == \E k \in 1..Len(ops) : ops[k].wall \notin {0, 1, 2, 3}
    IN  IF unknown(openings[1]) \/ unknown(openings[2])
          THEN ValueError
          ELSE [i \in 1..4 |-> of(onWall(openings[1], i - 1), "Door")
                               \o of(onWall(openings[2], i - 1), "Window")]

\* every hole and opening handed to the first wall
wallOpeningOrganiser_firstWall(openings) ==
    IF openings # None
      THEN LET rings(ops) == [k \in 1..Len(ops) |-> ops[k].ring]
           IN  [holes |-> [i \in 1..4 |->
                             IF i = 1 THEN rings(openings[1]) \o rings(openings[2])
                             ELSE <<>>],
                opns |-> [i \in 1..4 |->
                             IF i = 1 THEN <<openings[1], openings[2]>>
                             ELSE <<<<>>, <<>>>>]]
      ELSE [holes |-> None, opns |-> None]

\* holes[i] and opns[i] belong to wall i - 1
\* the lists are indexed with the wall as a list index: -4..-1 count from
\* the end, any other wall outside 0..3 raises IndexError
wallOpeningOrganiser(openings) ==
    IF openings # None
      THEN LET onWall(ops, w) == SelectSeq(ops, LAMBDA op : op.wall \in {w, w - 4})
               rings(ops) == [k \in 1..Len(ops) |-> ops[k].ring]
               outside(ops) == \E k \in 1..Len(ops) : ops[k].wall \notin -4..3
           IN  IF outside(openings[1]) \/ outside(openings[2]) THEN IndexError ELSE
               [holes |-> [i \in 1..4 |-> rings(onWall(openings[1], i - 1))
                                          \o rings(onWall(openings[2], i - 1))],
                opns |-> [i \in 1..4 |-> <<onWall(openings[1], i - 1),
                                           onWall(openings[2], i - 1)>>]]
      ELSE [holes |-> None, opns |-> None]

(***************************************************************************)
(* Roof constructors                                                       *)
(*                                                                         *)
(* p is the list of corner strings, r the pair of ridge strings (r[1] is   *)
(* the code's r[0]), override_wall the record [wall, rest, roof,           *)
(* outerfloor] of the east side, roofopenings and rfWindows None or four   *)
(* lists of rings indexed by roof side + 1.                                *)
(***************************************************************************)
\* one roof face with the cutouts and roof windows of one roof side
roofFace(ring, side, semantics, roofopenings, rfWindows) ==
    IF semantics
      THEN IF roofopenings # None
             THEN IF rfWindows # None
                    THEN multiSurface2(ring, "RoofSurface",
                                       roofopenings[side + 1], rfWindows[side + 1])
                    ELSE multiSurface(ring, "RoofSurface",
                                      roofopenings[side + 1], None)
             ELSE multiSurface(ring, "RoofSurface", None, None)
      ELSE IF roofopenings # None
             THEN addsurface(ring, roofopenings[side + 1])
             ELSE addsurface(ring, None)

\* the four walls: with their holes and openings in a semantic model, and in
\* a plain shell cut only when there is an embrasure
wallFaces(faces, semantics, openings, embrasure, pList) ==
    LET org == wallOpeningOrganiser(openings)
        holes == org.holes
        opns == org.opns
    IN  Let(embrasuresGeometry(openings, pList, embrasure), LAMBDA embO :
        Concat([i \in 1..4 |->
            IF semantics
              THEN IF openings # None
                     THEN IF Truthy(embrasure)
                            THEN multiSurfaceWithEmbrasure(faces[i], "WallSurface",
                                                           holes[i], embO[i])
                            ELSE multiSurface(faces[i], "WallSurface",
                                              holes[i], opns[i])
                     ELSE multiSurface(faces[i], "WallSurface", None, None)
              ELSE IF holes # None /\ Truthy(embrasure)
                     THEN addSurfaceWithEmbrasure(faces[i], holes[i], embO[i])
                     ELSE addsurface(faces[i], None)]))

\* the faces of the building part
partFaces(override_wall, semantics) ==
    LET each(fcs, sem) ==
            Concat([k \in 1..Len(fcs) |->
                IF semantics THEN multiSurface(fcs[k], sem, None, None)
                ELSE addsurface(fcs[k], None)])
    IN  each(override_wall.rest, "WallSurface")
        \o each(override_wall.roof, "RoofSurface")
        \o each(override_wall.outerfloor, "OuterFloorSurface")

gabledRoof(p, r, override_wall, semantics, openings, roofopenings, rfWindows, embrasure, pList) ==
    LET roof0 == r[1] \o r[2] \o p[7] \o p[4] \o r[1]
        roof1 == r[2] \o r[1] \o p[5] \o p[6] \o r[2]
        face0 == p[4] \o p[0] \o p[1] \o p[5] \o r[1] \o p[4]
        face1 == override_wall.wall
        face2 == p[6] \o p[2] \o p[3] \o p[7] \o r[2] \o p[6]
        face3 == p[7] \o p[3] \o p[0] \o p[4] \o p[7]
    IN  roofFace(roof0, 3, semantics, roofopenings, rfWindows)
        \o roofFace(roof1, 1, semantics, roofopenings, rfWindows)
        \o wallFaces(<<face0, face1, face2, face3>>, semantics, openings,
                     embrasure, pList)
        \o partFaces(override_wall, semantics)

shedRoof(p, r, override_wall, semantics, openings, roofopenings, rfWindows, embrasure, pList) ==
    LET roof1 == r[2] \o r[1] \o p[5] \o p[6] \o r[2]
        face0 == r[1] \o p[0] \o p[1] \o p[5] \o r[1]
        face1 == override_wall.wall
        face2 == p[6] \o p[2] \o p[3] \o r[2] \o p[6]
        face3 == r[2] \o p[3] \o p[0] \o r[1] \o r[2]
    IN  roofFace(roof1, 1, semantics, roofopenings, rfWindows)
        \o wallFaces(<<face0, face1, face2, face3>>, semantics, openings,
                     embrasure, pList)
        \o partFaces(override_wall, semantics)

\* a variant that cuts the features of side 0 into the north face and those
\* of side 2 into the south face
hippedRoof_northFirst(p, r, override_wall, semantics, openings, roofopenings, rfWindows, embrasure, pList) ==
    LET roof0 == IF r[1] = r[2] THEN r[1] \o p[7] \o p[4] \o r[1]
                 ELSE r[1] \o r[2] \o p[7] \o p[4] \o r[1]
        roof1 == IF r[1] = r[2] THEN r[2] \o p[5] \o p[6] \o r[2]
                 ELSE r[2] \o r[1] \o p[5] \o p[6] \o r[2]
        roofX == r[1] \o p[4] \o p[5] \o r[1]
        roofY == r[2] \o p[6] \o p[7] \o r[2]
        face0 == p[0] \o p[1] \o p[5] \o p[4] \o p[0]
        face1 == override_wall.wall
        face2 == p[2] \o p[3] \o p[7] \o p[6] \o p[2]
        face3 == p[3] \o p[0] \o p[4] \o p[7] \o p[3]
    IN  roofFace(roof0, 3, semantics, roofopenings, rfWindows)
        \o roofFace(roof1, 1, semantics, roofopenings, rfWindows)
        \o roofFace(roofX, 2, semantics, roofopenings, rfWindows)
        \o roofFace(roofY, 0, semantics, roofopenings, rfWindows)
        \o wallFaces(<<face0, face1, face2, face3>>, semantics, openings,
                     embrasure, pList)
        \o partFaces(override_wall, semantics)

hippedRoof(p, r, override_wall, semantics, openings, roofopenings, rfWindows, embrasure, pList) ==
    LET roof0 == IF r[1] = r[2] THEN r[1] \o p[7] \o p[4] \o r[1]
                 ELSE r[1] \o r[2] \o p[7] \o p[4] \o r[1]
        roof1 == IF r[1] = r[2] THEN r[2] \o p[5] \o p[6] \o r[2]
                 ELSE r[2] \o r[1] \o p[5] \o p[6] \o r[2]
        roofX == r[1] \o p[4] \o p[5] \o r[1]
        roofY == r[2] \o p[6] \o p[7] \o r[2]
        face0 == p[0] \o p[1] \o p[5] \o p[4] \o p[0]
        face1 == override_wall.wall
        face2 == p[2] \o p[3] \o p[7] \o p[6] \o p[2]
        face3 == p[3] \o p[0] \o p[4] \o p[7] \o p[3]
    IN  roofFace(roof0, 3, semantics, roofopenings, rfWindows)
        \o roofFace(roof1, 1, semantics, roofopenings, rfWindows)
        \o roofFace(roofX, 0, semantics, roofopenings, rfWindows)
        \o roofFace(roofY, 2, semantics, roofopenings, rfWindows)
        \o wallFaces(<<face0, face1, face2, face3>>, semantics, openings,
                     embrasure, pList)
        \o partFaces(override_wall, semantics)

\* a flat roof left open: the walls without the top face
flatRoof_open(p, r, override_wall, semantics, openings, roofopenings, rfWindows, embrasure, pList) ==
    wallFaces(<<p[0] \o p[1] \o p[5] \o p[4] \o p[0], override_wall.wall,
                p[2] \o p[3] \o p[7] \o p[6] \o p[2],
                p[3] \o p[0] \o p[4] \o p[7] \o p[3]>>, semantics, openings,
              embrasure, pList)
    \o partFaces(override_wall, semantics)

flatRoof(p, r, override_wall, semantics, openings, roofopenings, rfWindows, embrasure, pList) ==
    LET faceTop == p[4] \o p[5] \o p[6] \o p[7] \o p[4]
        face0 == p[0] \o p[1] \o p[5] \o p[4] \o p[0]
        face1 == override_wall.wall
        face2 == p[2] \o p[3] \o p[7] \o p[6] \o p[2]
        face3 == p[3] \o p[0] \o p[4] \o p[7] \o p[3]
    IN  (IF semantics
           THEN IF roofopenings # None
                  THEN multiSurface2(faceTop, "RoofSurface", roofopenings[2],
                                     rfWindows[2])
                  ELSE multiSurface(faceTop, "RoofSurface", None, None)
           ELSE addsurface(faceTop, None))
        \o wallFaces(<<face0, face1, face2, face3>>, semantics, openings,
                     embrasure, pList)
        \o partFaces(override_wall, semantics)

\* the constructor of a roof type
roofOf(rtype, p, r, override_wall, semantics, openings, roofopenings, rfWindows, embrasure, pList) ==
    CASE rtype = "Gabled" ->
           gabledRoof(p, r, override_wall, semantics, openings, roofopenings,
                      rfWindows, embrasure, pList)
      [] rtype = "Shed" ->
           shedRoof(p, r, override_wall, semantics, openings, roofopenings,
                    rfWindows, embrasure, pList)
      [] rtype \in {"Hipped", "Pyramidal"} ->
           hippedRoof(p, r, override_wall, semantics, openings, roofopenings,
                      rfWindows, embrasure, pList)
      [] rtype = "Flat" ->
           flatRoof(p, r, override_wall, semantics, openings, roofopenings,
                    rfWindows, embrasure, pList)
      \* the chain of roof types has no else branch
      [] OTHER -> <<>>

(***************************************************************************)
(* Roof features                                                           *)
(*                                                                         *)
(* A dormer or roof window is a record [side, origin, size] with pairs     *)
(* origin and size; a chimney has a size of three numbers.  p is the       *)
(* numeric corner list, x the width of the body, width the ridge inset.    *)
(***************************************************************************)
\* a point of a feature of one roof side: per is the horizontal distance
\* from the eave edge of the side, along the distance along that edge
featurePoint(p, side, per, along, zz) ==
    CASE side = 1 -> <<Minus(p[1][1], per), Plus(p[1][2], along), zz>>
      [] side = 3 -> <<Plus(p[4][1], per), Minus(p[7][2], along), zz>>
      [] side = 0 -> <<Plus(p[4][1], along), Plus(p[4][2], per), zz>>
      [] side = 2 -> <<Minus(p[6][1], along), Minus(p[6][2], per), zz>>

\* the roof sides on which the code places a dormer or roof window
dormerSides(rtype) ==
    CASE rtype = "Gabled" -> {1, 3}
      [] rtype = "Shed" -> {1}
      [] rtype \in {"Hipped", "Pyramidal"} -> {0, 1, 2, 3}
      [] rtype = "Flat" -> {1}

\* the roof sides on which the code places a chimney
chimneySides(rtype) ==
    CASE rtype = "Gabled" -> {1, 3}
      [] rtype = "Shed" -> {1}
      [] rtype \in {"Hipped", "Pyramidal"} -> {1, 3}
      [] rtype = "Flat" -> {1}

\* the horizontal run over which the roof face of a side rises by h
runOf(rtype, side, x, width) ==
    CASE rtype = "Shed" -> x
      [] rtype \in {"Hipped", "Pyramidal"} /\ side \in {0, 2} -> width
      [] OTHER -> Times(x, Half)

\* a variant that takes the full width x as the run of every roof face
dormerVerticesOf_fullWidth(drm, p, h, rtype, x, width) ==
    LET o1 == drm.origin[2]
        s1 == drm.size[2]
        o0 == drm.origin[1]
        o0s == Plus(drm.origin[1], drm.size[1])
        flat == rtype = "Flat"
        per == IF flat THEN o1 ELSE Div(Times(o1, x), h)
        per2 == IF flat THEN Plus(s1, per) ELSE Plus(Div(Times(s1, x), h), per)
        zb == IF flat THEN p[5][3] ELSE Plus(p[5][3], o1)
        zt == Plus(Plus(p[5][3], o1), s1)
        zk == IF flat THEN p[5][3] ELSE zt
    IN  IF drm.side \in dormerSides(rtype)
          THEN [i \in 0..5 |->
                 CASE i = 0 -> featurePoint(p, drm.side, per2, o0, zk)
                   [] i = 1 -> featurePoint(p, drm.side, per, o0, zb)
                   [] i = 2 -> featurePoint(p, drm.side, per, o0s, zb)
                   [] i = 3 -> featurePoint(p, drm.side, per2, o0s, zk)
                   [] i = 4 -> featurePoint(p, drm.side, per, o0, zt)
                   [] i = 5 -> featurePoint(p, drm.side, per, o0s, zt)]
          ELSE [i \in 0..5 |-> <<>>]

\* the six vertices of one dormer: 1, 2 the foot of the front, 4, 5 its
\* top, 0, 3 where the top meets the roof
dormerVerticesOf(drm, p, h, rtype, x, width) ==
    LET o1 == drm.origin[2]
        s1 == drm.size[2]
        o0 == drm.origin[1]
        o0s == Plus(drm.origin[1], drm.size[1])
        flat == rtype = "Flat"
        per == IF flat THEN o1
               ELSE Div(Times(o1, runOf(rtype, drm.side, x, width)), h)
        per2 == IF flat THEN Plus(s1, per)
                ELSE Plus(Div(Times(s1, runOf(rtype, drm.side, x, width)), h), per)
        zb == IF flat THEN p[5][3] ELSE Plus(p[5][3], o1)
        zt == Plus(Plus(p[5][3], o1), s1)
        zk == IF flat THEN p[5][3] ELSE zt
    IN  IF drm.side \in dormerSides(rtype)
          THEN [i \in 0..5 |->
                 CASE i = 0 -> featurePoint(p, drm.side, per2, o0, zk)
                   [] i = 1 -> featurePoint(p, drm.side, per, o0, zb)
                   [] i = 2 -> featurePoint(p, drm.side, per, o0s, zb)
                   [] i = 3 -> featurePoint(p, drm.side, per2, o0s, zk)
                   [] i = 4 -> featurePoint(p, drm.side, per, o0, zt)
                   [] i = 5 -> featurePoint(p, drm.side, per, o0s, zt)]
          ELSE [i \in 0..5 |-> <<>>]

\* dList and dListGML: per dormer the vertices and their strings
dormerVertices(dormers, p, h, rtype, x, width) ==
    [k \in 1..Len(dormers) |->
        LET d == dormerVerticesOf(dormers[k], p, h, rtype, x, width)
        IN  [d |-> d,
             dGML |-> [i \in 0..5 |->
                         IF d[i] = <<>> THEN <<>> ELSE GMLPointList(d[i])]]]

\* the eight vertices of one chimney: 0..3 its foot on the roof, 4..7 its
\* cap; on a side for which the roof type has no branch the eight lists stay
\* empty
chimneyVerticesOf(drm, p, h, rtype, x, width) ==
    LET xperimiter == drm.origin[2]
        xperimiter2 == Plus(drm.size[2], xperimiter)
        chHeight == drm.size[3]
        o0 == drm.origin[1]
        o0s == Plus(drm.origin[1], drm.size[1])
        flat == rtype = "Flat"
        run == IF rtype = "Shed" THEN x ELSE Times(x, Half)
        zperimiter1 == IF flat THEN Zero ELSE Div(Times(xperimiter, h), run)
        zperimiter2 == IF flat THEN Zero ELSE Div(Times(xperimiter2, h), run)
        z1 == Plus(p[5][3], zperimiter1)
        z2 == Plus(p[5][3], zperimiter2)
        zc == Plus(z2, chHeight)
    IN  IF drm.side \in chimneySides(rtype)
          THEN [i \in 0..7 |->
                 CASE i = 0 -> featurePoint(p, drm.side, xperimiter2, o0, z2)
                   [] i = 1 -> featurePoint(p, drm.side, xperimiter, o0, z1)
                   [] i = 2 -> featurePoint(p, drm.side, xperimiter, o0s, z1)
                   [] i = 3 -> featurePoint(p, drm.side, xperimiter2, o0s, z2)
                   [] i = 4 -> featurePoint(p, drm.side, xperimiter, o0, zc)
                   [] i = 5 -> featurePoint(p, drm.side, xperimiter, o0s, zc)
                   [] i = 6 -> featurePoint(p, drm.side, xperimiter2, o0s, zc)
                   [] i = 7 -> featurePoint(p, drm.side, xperimiter2, o0, zc)]
          ELSE [i \in 0..7 |-> <<>>]

\* dList and dListGML of the chimneys: the eight lists are compared with a
\* list of six empty lists, which they never equal, so the strings are made
\* also of empty lists, and that of the first raises IndexError
chimneyVertices(chimneys, p, h, rtype, x, width) ==
    [k \in 1..Len(chimneys) |->
        LET d == chimneyVerticesOf(chimneys[k], p, h, rtype, x, width)
        IN  IF d[0] = <<>> THEN IndexError
            ELSE [d |-> d, dGML |-> [i \in 0..7 |-> GMLPointList(d[i])]]]

\* the origin of a roof feature on a body whose eave was moved out by
\* overhang_x, overhang_y and down by eaves
adjustRoofFeatures(roofType, eaves, old_origin, overhang_x, overhang_y, side) ==
    IF roofType = "Flat"
      THEN <<Plus(old_origin[1], overhang_y), Plus(old_origin[2], overhang_x)>>
      ELSE IF side \in {1, 3}
             THEN <<Plus(old_origin[1], overhang_y), Plus(old_origin[2], eaves)>>
             ELSE <<Plus(old_origin[1], overhang_x), Plus(old_origin[2], eaves)>>

(***************************************************************************)
(* Building installations: dormers and chimneys                            *)
(*                                                                         *)
(* d is one entry of dormerVertices or chimneyVertices.  window is None or *)
(* the margin between the front of a dormer and its window.                *)
(***************************************************************************)
binosemantics(coords, window) ==
    <<Polygon(coords, IF window # None THEN <<window>> ELSE <<>>, "",
              "member", None)>>

bisemantics(coords, semantics, window, fillHole) ==
    <<Polygon(coords,
              IF window # None THEN <<GMLreversedRing(window)>> ELSE <<>>,
              semantics, "member", None)>>
    \o (IF window # None /\ fillHole
          THEN <<Polygon(window, <<>>, "Window", "opening", coords)>>
          ELSE <<>>)

bisemanticsMulti(coords, semantics, window) ==
    [k \in 1..Len(coords) |-> Polygon(coords[k], <<>>, semantics, "member", None)]
    \o (IF window # None
          THEN <<Polygon(window, <<>>, "Window", "opening", coords[1])>>
          ELSE <<>>)

\* the corners dw of the window in the front of a dormer and the corners ew
\* of the window pane, set back by the embrasure
\* (the corners are read only when there is a window, and the pane only when
\* there is an embrasure)
dormerWindow(dList, side, window, embrasure) ==
    LET wd == IF window = None THEN Zero ELSE window
        em == IF embrasure = None THEN Zero ELSE embrasure
        sg == IF side \in {1, 0} THEN wd ELSE Minus(Zero, wd)
        in(pt, a, c) ==
            IF side \in {1, 3}
              THEN <<pt[1], Plus(pt[2], Times(a, sg)), Plus(pt[3], Times(c, wd))>>
              ELSE <<Plus(pt[1], Times(a, sg)), pt[2], Plus(pt[3], Times(c, wd))>>
        back(pt) ==
            CASE side = 1 -> <<Minus(pt[1], em), pt[2], pt[3]>>
              [] side = 3 -> <<Plus(pt[1], em), pt[2], pt[3]>>
              [] side = 0 -> <<pt[1], Plus(pt[2], em), pt[3]>>
              [] side = 2 -> <<pt[1], Minus(pt[2], em), pt[3]>>
    IN  Let(<<in(dList[4], <<1, 1>>, <<-1, 1>>), in(dList[1], <<1, 1>>, <<1, 1>>),
                in(dList[2], <<-1, 1>>, <<1, 1>>), in(dList[5], <<-1, 1>>, <<-1, 1>>)>>, LAMBDA dw :
        [dw |-> [i \in 0..3 |-> GMLPointList(dw[i + 1])],
         ew |-> [i \in 0..3 |-> GMLPointList(back(dw[i + 1]))]])

\* the rings of a dormer and of its window
dormerRings(d, side, window, embrasure) ==
    LET g == d.dGML
    IN  Let(dormerWindow(d.d, side, window, embrasure), LAMBDA w :
    Let(w.dw, LAMBDA dw :
    Let(w.ew, LAMBDA ew :
        [d1 |-> g[0] \o g[1] \o g[4] \o g[0],
         d2 |-> g[0] \o g[4] \o g[5] \o g[3] \o g[0],
         d3 |-> g[5] \o g[2] \o g[3] \o g[5],
         d4 |-> g[4] \o g[1] \o g[2] \o g[5] \o g[4],
         dwring |-> dw[0] \o dw[3] \o dw[2] \o dw[1] \o dw[0],
         dwfill |-> dw[0] \o dw[1] \o dw[2] \o dw[3] \o dw[0],
         dw0 |-> dw[0] \o dw[1] \o ew[1] \o ew[0] \o dw[0],
         dw1 |-> dw[1] \o dw[2] \o ew[2] \o ew[1] \o dw[1],
         dw2 |-> dw[3] \o ew[3] \o ew[2] \o dw[2] \o dw[3],
         dw3 |-> dw[3] \o dw[0] \o ew[0] \o ew[3] \o dw[3],
         ew0 |-> ew[0] \o ew[1] \o ew[2] \o ew[3] \o ew[0]])))

\* the rings of a chimney
chimneyRings(d) ==
    LET g == d.dGML
    IN  [d1 |-> g[0] \o g[1] \o g[4] \o g[7] \o g[0],
         d2 |-> g[3] \o g[6] \o g[5] \o g[2] \o g[3],
         d3 |-> g[0] \o g[7] \o g[6] \o g[3] \o g[0],
         d4 |-> g[4] \o g[1] \o g[2] \o g[5] \o g[4],
         d5 |-> g[7] \o g[4] \o g[5] \o g[6] \o g[7],
         d0 |-> g[0] \o g[1] \o g[2] \o g[3] \o g[0]]

buildinginstallation(kind, d, semantics, window, side, embrasure) ==
    Let(dormerRings(d, side, window, embrasure), LAMBDA q :
    LET c == chimneyRings(d)
        deep == embrasure # None /\ Less(Zero, embrasure)
    IN  OfKind(kind,
          IF semantics = 0
            THEN IF kind = "dormer"
                   THEN binosemantics(q.d1, None) \o binosemantics(q.d2, None)
                        \o binosemantics(q.d3, None)
                        \o (IF window = None THEN binosemantics(q.d4, None)
                            ELSE IF deep
                              THEN binosemantics(q.d4, q.dwring)
                                   \o binosemantics(q.dw0, None)
                                   \o binosemantics(q.dw1, None)
                                   \o binosemantics(q.dw2, None)
                                   \o binosemantics(q.dw3, None)
                                   \o binosemantics(q.ew0, None)
                              ELSE binosemantics(q.d4, q.dwring))
                   ELSE binosemantics(c.d1, None) \o binosemantics(c.d2, None)
                        \o binosemantics(c.d3, None) \o binosemantics(c.d4, None)
                        \o binosemantics(c.d5, None)
                        \o bisemantics(c.d0, "ClosureSurface", None, TRUE)
            ELSE IF kind = "dormer"
                   THEN bisemantics(q.d1, "WallSurface", None, TRUE)
                        \o bisemantics(q.d2, "RoofSurface", None, TRUE)
                        \o bisemantics(q.d3, "WallSurface", None, TRUE)
                        \o (IF window = None
                              THEN bisemantics(q.d4, "WallSurface", None, TRUE)
                            ELSE IF deep
                              THEN bisemantics(q.d4, "WallSurface", q.dwring, FALSE)
                                   \o bisemanticsMulti(<<q.dw0, q.dw1, q.dw2, q.dw3>>,
                                                       "WallSurface", q.ew0)
                              ELSE bisemantics(q.d4, "WallSurface", q.dwfill, TRUE))
                   ELSE bisemantics(c.d1, "WallSurface", None, TRUE)
                        \o bisemantics(c.d2, "WallSurface", None, TRUE)
                        \o bisemantics(c.d3, "WallSurface", None, TRUE)
                        \o bisemantics(c.d4, "WallSurface", None, TRUE)
                        \o bisemantics(c.d5, "ClosureSurface", None, TRUE)
                        \o bisemantics(c.d0, "ClosureSurface", None, TRUE)))

\* the faces of a dormer in a plain shell (kind is "dormer", semantics 0)
buildinginstallationSolid(kind, d, semantics, window, side, embrasure) ==
    Let(dormerRings(d, side, window, embrasure), LAMBDA q :
        OfKind(kind,
          addsurface(q.d1, None) \o addsurface(q.d2, None) \o addsurface(q.d3, None)
          \o (IF embrasure # None /\ Less(Zero, embrasure)
                THEN addsurface(q.d4, <<q.dwring>>)
                     \o addsurface(q.dw0, None) \o addsurface(q.dw1, None)
                     \o addsurface(q.dw2, None) \o addsurface(q.dw3, None)
                     \o addsurface(q.ew0, None)
                ELSE addsurface(q.d4, None))))

(***************************************************************************)
(* Building parts                                                          *)
(*                                                                         *)
(* buildingpart is the empty sequence or a sequence of one record          *)
(* [type, o, x, y, z]; aux is the record of the original sizes.            *)
(***************************************************************************)
\* covered is None when there is no part
coveredBy(x, aux, buildingpart) ==
    IF buildingpart # <<>>
      THEN <<Less(aux.xsize, x) /\ Leq(buildingpart[1].x, aux.ovhx)>>
      ELSE None

\* bp are the corners of the part and bpT the corners of its top lifted to
\* the top of the block
buildingPartVertices(o, x, p, aux, buildingpart, fd) ==
    LET part == buildingpart[1]
        grown == Less(aux.xsize, x)
        shrunk == fd /\ Less(x, aux.xsize)
        eastline == GMLstring2points(p[1])[1][1]
        tH == GMLstring2points(p[4])[1][3]
        xW == IF grown THEN Plus(o[1], x)
              ELSE IF shrunk THEN eastline
              ELSE Plus(aux.origin[1], aux.xsize)
        xE == IF grown \/ shrunk
                THEN Minus(Plus(Plus(o[1], x), part.x),
                           Times(Half, Minus(x, aux.xsize)))
                ELSE Plus(Plus(aux.origin[1], aux.xsize), part.x)
        yS == Plus(aux.origin[2], part.o)
        yN == Plus(Plus(aux.origin[2], part.o), part.y)
        pt(i, zz) == GMLPointList(<<IF i \in {1, 2} THEN xE ELSE xW,
                                    IF i \in {2, 3} THEN yN ELSE yS, zz>>)
    IN  [bp |-> [i \in 0..7 |->
                   pt(i % 4, IF i < 4 THEN aux.origin[3]
                             ELSE Plus(aux.origin[3], part.z))],
         bpT |-> [i \in 4..7 |-> pt(i % 4, tH)]]

faceBottomOf(p) == p[0] \o p[3] \o p[2] \o p[1] \o p[0]

faceBottomWithPart(p, bp) ==
    p[0] \o p[3] \o p[2] \o bp[3] \o bp[2] \o bp[1] \o bp[0] \o p[1] \o p[0]

\* the east side without a part
eastFacesPlain(p) ==
    [wall |-> p[1] \o p[2] \o p[6] \o p[5] \o p[1],
     rest |-> <<>>, roof |-> <<>>, outerfloor |-> <<>>]

\* the east side with a part whose top is in no bundle
eastFacesWithPart_noTop(p, bp, topIsRoof) ==
    [wall |-> p[1] \o bp[0] \o bp[4] \o bp[7] \o bp[3] \o p[2] \o p[6]
                \o p[5] \o p[1],
     rest |-> <<bp[0] \o bp[1] \o bp[5] \o bp[4] \o bp[0],
                bp[1] \o bp[2] \o bp[6] \o bp[5] \o bp[1],
                bp[3] \o bp[7] \o bp[6] \o bp[2] \o bp[3]>>,
     roof |-> <<>>,
     outerfloor |-> <<>>]

\* the east side with a part whose top is a roof or an outer floor
eastFacesWithPart(p, bp, topIsRoof) ==
    LET gtop == bp[4] \o bp[5] \o bp[6] \o bp[7] \o bp[4]
    IN  [wall |-> p[1] \o bp[0] \o bp[4] \o bp[7] \o bp[3] \o p[2] \o p[6]
                    \o p[5] \o p[1],
         rest |-> <<bp[0] \o bp[1] \o bp[5] \o bp[4] \o bp[0],
                    bp[1] \o bp[2] \o bp[6] \o bp[5] \o bp[1],
                    bp[3] \o bp[7] \o bp[6] \o bp[2] \o bp[3]>>,
         roof |-> IF topIsRoof THEN <<gtop>> ELSE <<>>,
         outerfloor |-> IF topIsRoof THEN <<>> ELSE <<gtop>>]

(***************************************************************************)
(* LOD1 solid                                                              *)
(***************************************************************************)
CityGMLbuildingLOD1Solid(o, x, y, z, h, rtype, top, override, LOD, aux, buildingpart, fd) ==
    Let(IF top # None
               THEN IF top = Int2R(1) /\ rtype = "Shed"
                      THEN verticesBody(o, x, y, z, h, None, override)
                      ELSE verticesBody(o, x, y, z, h, top, None)
               ELSE verticesBody(o, x, y, z, h, None, override), LAMBDA p :
    LET face0 == p[0] \o p[1] \o p[5] \o p[4] \o p[0]
        face2 == p[2] \o p[3] \o p[7] \o p[6] \o p[2]
        face3 == p[3] \o p[0] \o p[4] \o p[7] \o p[3]
        covered == coveredBy(x, aux, buildingpart)
    IN  Let(buildingPartVertices(o, x, p, aux, buildingpart, fd), LAMBDA v :
    Let(v.bp, LAMBDA bp :
    Let(v.bpT, LAMBDA bpT :
    LET faceTop == p[4] \o p[5] \o p[6] \o p[7] \o p[4]
        box == <<p[1] \o p[2] \o p[6] \o p[5] \o p[1], faceBottomOf(p), faceTop>>
    IN  Let(<<faceBottomWithPart(p, bp),
                   p[4] \o p[5] \o bpT[4] \o bpT[5] \o bpT[6] \o bpT[7] \o p[6]
                     \o p[7] \o p[4],
                   p[1] \o bp[0] \o bpT[4] \o p[5] \o p[1],
                   p[2] \o p[6] \o bpT[7] \o bp[3] \o p[2],
                   bp[0] \o bp[1] \o bpT[5] \o bpT[4] \o bp[0],
                   bp[1] \o bp[2] \o bpT[6] \o bpT[5] \o bp[1],
                   bp[3] \o bpT[7] \o bpT[6] \o bp[2] \o bp[3]>>, LAMBDA block :
    LET e == eastFacesWithPart(p, bp, TRUE)
    IN  Let(<<faceBottomWithPart(p, bp), faceTop, e.wall>> \o e.rest \o e.roof, LAMBDA stepped :
    Let(<<face0, face2, face3>>
                 \o (IF buildingpart # <<>> /\ covered # <<TRUE>>
                       THEN IF buildingpart[1].type = "Alcove"
                              THEN CASE LOD = "1.1" -> box
                                     [] LOD = "1.2" -> block
                                     [] LOD = "1.3" -> stepped
                                     [] OTHER -> <<>>
                              ELSE CASE LOD \in {"1.1", "1.2"} -> block
                                     [] LOD = "1.3" -> stepped
                                     [] OTHER -> <<>>
                       ELSE box), LAMBDA faces :
        Concat([k \in 1..Len(faces) |-> addsurface(faces[k], None)]))))))))

(***************************************************************************)
(* LOD2 solid, plain and semantic                                          *)
(***************************************************************************)
\* the east side and the bottom face chosen for a part at an LOD2 level
eastSideLOD2(o, x, p, LOD, aux, buildingpart, fd) ==
    LET covered == coveredBy(x, aux, buildingpart)
    IN  Let(buildingPartVertices(o, x, p, aux, buildingpart, fd).bp, LAMBDA bp :
    LET plain == [east_faces |-> eastFacesPlain(p), faceBottom |-> faceBottomOf(p)]
    IN  IF buildingpart # <<>> /\ covered # <<TRUE>>
          THEN IF buildingpart[1].type = "Alcove"
                 THEN IF LOD = "2.0" THEN plain
                      ELSE [east_faces |-> eastFacesWithPart(p, bp, FALSE),
                            faceBottom |-> faceBottomWithPart(p, bp)]
                 ELSE [east_faces |-> eastFacesWithPart(p, bp, TRUE),
                       faceBottom |-> faceBottomWithPart(p, bp)]
          ELSE plain)

\* the overhang surfaces, present when there is an overhang in x
overhangsOf(b, p, h, rtype, ovh, r, width, semantics) ==
    IF ovh # None /\ Less(Zero, ovh[1])
      THEN LET v == verticesOverhangs(b, p, h, rtype, ovh, r, width)
           IN  roofOverhangs(v.overhangs, v.interior, semantics)
      ELSE <<>>

CityGMLbuildingLOD2Solid(o, x, y, z, h, rtype, width, ovh, rep, LOD, aux, buildingpart, fd) ==
    Let(verticesBody(o, x, y, z, None, None, None), LAMBDA p :
    Let(verticesRoof(<<o, x, y, z>>, h, rtype, width), LAMBDA r :
    Let(eastSideLOD2(o, x, p, LOD, aux, buildingpart, fd), LAMBDA east :
    LET faceBottom == faceBottomOf(p)
    IN  IF rep = "solid"
          THEN addsurface(faceBottom, None)
               \o roofOf(rtype, p, r, east.east_faces, FALSE, None, None, None,
                         None, None)
          ELSE plainMultiSurface(faceBottom, None)
               \o roofOf(rtype, p, r, east.east_faces, FALSE, None, None, None,
                         None, None)
               \o overhangsOf(<<o, x, y, z>>, p, h, rtype, ovh, r, width, FALSE))))

CityGMLbuildingLOD2Semantics(o, x, y, z, h, rtype, width, ovh, LOD, aux, buildingpart, fd) ==
    LET p == verticesBody(o, x, y, z, None, None, None)
    IN  Let(verticesRoof(<<o, x, y, z>>, h, rtype, width), LAMBDA r :
    Let(eastSideLOD2(o, x, p, LOD, aux, buildingpart, fd), LAMBDA east :
        multiSurface(east.faceBottom, "GroundSurface", None, None)
        \o roofOf(rtype, p, r, east.east_faces, TRUE, None, None, None, None, None)
        \o overhangsOf(<<o, x, y, z>>, p, h, rtype, ovh, r, width, TRUE)))

(***************************************************************************)
(* LOD3, semantic and plain                                                *)
(*                                                                         *)
(* door is the empty sequence or a sequence of one door, wallWindows,      *)
(* dormers, roofWindows and chimney are sequences (None is the empty       *)
(* sequence), aerial is a Boolean.                                         *)
(***************************************************************************)
\* the corners of the part at LOD3
buildingPartVerticesLOD3(o, x, aux, buildingpart) ==
    LET part == buildingpart[1]
        xW == Plus(o[1], x)
        xE == Minus(Plus(Plus(o[1], x), part.x), Times(Half, Minus(x, aux.xsize)))
        yS == Plus(aux.origin[2], part.o)
        yN == Plus(Plus(aux.origin[2], part.o), part.y)
        pt(i, zz) == GMLPointList(<<IF i \in {1, 2} THEN xE ELSE xW,
                                    IF i \in {2, 3} THEN yN ELSE yS, zz>>)
    IN  [i \in 0..7 |-> pt(i % 4, IF i < 4 THEN aux.origin[3]
                                  ELSE Plus(aux.origin[3], part.z))]

\* the east side and the bottom face for a part at LOD3; the top of an
\* alcove is an outer floor only in the semantic model
eastSideLOD3(o, x, p, aux, buildingpart, aerial, alcoveIsFloor) ==
    LET covered == IF aerial THEN coveredBy(x, aux, buildingpart) ELSE None
        bp == buildingPartVerticesLOD3(o, x, aux, buildingpart)
    IN  IF buildingpart # <<>> /\ covered # <<TRUE>>
          THEN [east_faces |-> eastFacesWithPart(p, bp,
                                 ~(alcoveIsFloor /\ buildingpart[1].type = "Alcove")),
                faceBottom |-> faceBottomWithPart(p, bp)]
          ELSE [east_faces |-> eastFacesPlain(p), faceBottom |-> faceBottomOf(p)]

\* the door and the windows with their rings
openingsOf(door, wallWindows, pList) ==
    LET ringed(op) == [wall |-> op.wall, origin |-> op.origin, size |-> op.size,
                       ring |-> openingRing(op, pList)]
    IN  <<[k \in 1..Len(door) |-> ringed(door[k])],
          [k \in 1..Len(wallWindows) |-> ringed(wallWindows[k])]>>

\* per roof side, the rings of the features on that side
ringsBySide(feats, verts, ring(_)) ==
    LET all == [k \in 1..Len(feats) |-> k]
        on(i) == SelectSeq(all, LAMBDA k : feats[k].side = i - 1)
    IN  [i \in 1..4 |-> [j \in 1..Len(on(i)) |-> ring(verts[on(i)[j]].dGML)]]

\* a cutout whose first point is not repeated at the end
cutoutRing_open(g) == g[0] \o g[3] \o g[2] \o g[1]

\* a cutout traversed in the order of the footprint
cutoutRing_sameSense(g) == g[0] \o g[1] \o g[2] \o g[3] \o g[0]

cutoutRing(g) == g[0] \o g[3] \o g[2] \o g[1] \o g[0]

roofWindowRing(g) == g[0] \o g[1] \o g[2] \o g[3] \o g[0]

CityGMLbuildingLOD3Semantics(o, x, y, z, h, rtype, ovh, width, door, wallWindows, dormers, roofWindows, chimney, embrasure, BiSem, aux, buildingpart, aerial) ==
    Let(verticesBody(o, x, y, z, None, None, None), LAMBDA p :
    Let(verticesBodyList(o, x, y, z, None, None), LAMBDA pList :
    Let(verticesRoof(<<o, x, y, z>>, h, rtype, width), LAMBDA r :
    LET b == <<o, x, y, z>>
    IN  Let(verticesOverhangs(b, p, h, rtype, ovh, r, width), LAMBDA v :
    Let(IF ovh # None THEN v.eaves ELSE z, LAMBDA eaves :
    Let(IF ovh # None /\ rtype = "Shed"
                        THEN Plus(Plus(z, h), Minus(z, eaves)) ELSE z, LAMBDA upperEaves :
    Let(eastSideLOD3(o, x, p, aux, buildingpart, aerial, TRUE), LAMBDA east :
    LET rw == IF dormers # <<>> THEN <<>> ELSE roofWindows
    IN  Let(dormerVertices(dormers, pList, h, rtype, x, width), LAMBDA dv :
    Let(dormerVertices(rw, pList, h, rtype, x, width), LAMBDA wv :
    Let(chimneyVertices(chimney, pList, h, rtype, x, width), LAMBDA cv :
    LET dcut == ringsBySide(dormers, dv, cutoutRing)
        wcut == ringsBySide(rw, wv, cutoutRing)
        ccut == ringsBySide(chimney, cv, cutoutRing)
        ropenings == [i \in 1..4 |-> dcut[i] \o wcut[i] \o ccut[i]]
        ropenings_rw == ringsBySide(rw, wv, roofWindowRing)
    IN  Let(IF chimney # <<>> THEN cv[Len(cv)].d[7][3] ELSE None, LAMBDA chimneyTop :
        [out |->
           Concat([k \in 1..Len(dormers) |->
               buildinginstallation("dormer", dv[k], BiSem,
                   IF aerial THEN None ELSE <<1, 10>>, dormers[k].side, embrasure)])
           \o Concat([k \in 1..Len(chimney) |->
               buildinginstallation("chimney", cv[k], BiSem, None,
                                    chimney[k].side, None)])
           \o multiSurface(east.faceBottom, "GroundSurface", None, None)
           \o roofOf(rtype, p, r, east.east_faces, TRUE,
                     openingsOf(door, wallWindows, pList), ropenings, ropenings_rw,
                     embrasure, pList)
           \o overhangsOf(b, p, h, rtype, ovh, r, width, TRUE),
         chimneyHeight |->
           IF rtype = "Shed"
             THEN IF chimneyTop # None /\ ~Less(chimneyTop, upperEaves)
                    THEN chimneyTop ELSE upperEaves
             ELSE chimneyTop,
         eaves |-> eaves,
         ovhy_recalculated |-> IF ovh # None THEN v.ovhy_recalculated ELSE None])))))))))))

CityGMLbuildingLOD3Solid(o, x, y, z, h, rtype, ovh, width, door, wallWindows, dormers, roofWindows, chimney, embrasure, additional, rep, aux, buildingpart, aerial) ==
    LET p == verticesBody(o, x, y, z, None, None, None)
        pList == verticesBodyList(o, x, y, z, None, None)
    IN  Let(verticesRoof(<<o, x, y, z>>, h, rtype, width), LAMBDA r :
    LET b == <<o, x, y, z>>
    IN  Let(eastSideLOD3(o, x, p, aux, buildingpart, aerial, FALSE), LAMBDA east :
    Let(dormerVertices(dormers, pList, h, rtype, x, width), LAMBDA dv :
    LET ropenings == ringsBySide(dormers, dv, cutoutRing)
    IN  Concat([k \in 1..Len(dormers) |->
            buildinginstallationSolid("dormer", dv[k], 0,
                IF aerial THEN None ELSE <<1, 10>>, dormers[k].side, embrasure)])
        \o (IF rep = "solid" THEN addsurface(east.faceBottom, None)
            ELSE plainMultiSurface(east.faceBottom, None))
        \o roofOf(rtype, p, r, east.east_faces, FALSE,
                  openingsOf(door, wallWindows, pList), ropenings, None,
                  embrasure, pList)
        \o (IF rep = "brep" THEN overhangsOf(b, p, h, rtype, ovh, r, width, FALSE)
            ELSE <<>>))))

(***************************************************************************)
(* The interior: one slab or one room per storey, and the attic            *)
(*                                                                         *)
(* Interior points are written with str() from the numbers; a point is the *)
(* same three tokens as elsewhere.                                         *)
(***************************************************************************)
\* the eight corners of the interior of a building part; near is the x of
\* the side towards the building
interiorPartVertices(o, x, aux, buildingpart, wallThickness, joist, near) ==
    LET bpr == buildingpart[1]
        far == Minus(Minus(Plus(Plus(o[1], x), bpr.x),
                           Times(Half, Minus(x, aux.xsize))), wallThickness)
        ylo == Plus(Plus(aux.origin[2], bpr.o), wallThickness)
        yhi == Minus(Plus(Plus(aux.origin[2], bpr.o), bpr.y), wallThickness)
        zlo == Plus(aux.origin[3], Times(Half, joist))
        zhi == Minus(Plus(aux.origin[3], bpr.z), Times(Half, joist))
    IN  [i \in 0..7 |->
            GMLPointList(<<IF i \in {1, 2, 5, 6} THEN far ELSE near,
                           IF i \in {2, 3, 6, 7} THEN yhi ELSE ylo,
                           IF i >= 4 THEN zhi ELSE zlo>>)]

\* the corners of a room as wide and as deep as the building
storeyPoints_noInset(o, x, y, floor, floorHeight, wallThickness, joist) ==
    LET fel == Plus(Times(Int2R(floor - 1), floorHeight), Times(Half, joist))
        cel == Minus(Times(Int2R(floor), floorHeight), Times(Half, joist))
    IN  [i \in 0..7 |->
            <<IF i \in {1, 2, 5, 6} THEN Plus(o[1], x) ELSE o[1],
              IF i \in {2, 3, 6, 7} THEN Plus(o[2], y) ELSE o[2],
              IF i >= 4 THEN cel ELSE fel>>]

\* the corners of the room of one storey: 0..3 on the floor, 4..7 under the
\* ceiling
storeyPoints(o, x, y, floor, floorHeight, wallThickness, joist) ==
    LET Xa == Plus(o[1], wallThickness)
        Xb == Minus(Plus(o[1], x), wallThickness)
        Ya == Plus(o[2], wallThickness)
        Yb == Minus(Plus(o[2], y), wallThickness)
        fel == Plus(Times(Int2R(floor - 1), floorHeight), Times(Half, joist))
        cel == Minus(Times(Int2R(floor), floorHeight), Times(Half, joist))
    IN  [i \in 0..7 |->
            <<IF i \in {1, 2, 5, 6} THEN Xb ELSE Xa,
              IF i \in {2, 3, 6, 7} THEN Yb ELSE Ya,
              IF i >= 4 THEN cel ELSE fel>>]

CityGMLbuildingInteriorLOD0(o, x, y, z, h, floors, floorHeight, rtype, width, wallThickness, joist, aux, buildingpart) ==
    LET n == IF rtype # "Flat" THEN floors + 1 ELSE floors
        slab(floor) ==
            LET q == storeyPoints(o, x, y, floor, floorHeight, wallThickness, joist)
                plain == q[0] \o q[3] \o q[2] \o q[1] \o q[0]
            IN  IF floor = 1 /\ buildingpart # <<>>
                  THEN IF buildingpart[1].type = "Alcove"
                         THEN LET bp == interiorPartVertices(o, x, aux,
                                            buildingpart, wallThickness, joist,
                                            Minus(Plus(o[1], x), wallThickness))
                              IN  addsurface(q[0] \o q[3] \o q[2] \o bp[3] \o bp[2]
                                             \o bp[1] \o bp[0] \o q[1] \o q[0], <<>>)
                         ELSE LET bp == interiorPartVertices(o, x, aux,
                                            buildingpart, wallThickness, joist,
                                            Plus(Plus(o[1], x), wallThickness))
                              IN  OfKind("part", addsurface(bp[0] \o bp[3] \o bp[2]
                                                            \o bp[1] \o bp[0], <<>>))
                                  \o addsurface(plain, <<>>)
                  ELSE addsurface(plain, <<>>)
    IN  OfKindIfNone("storey", Concat([floor \in 1..n |-> slab(floor)]))

\* the attics: intcoor is [Xa, Ya, Xb, Yb], r the two ridge points, fel and
\* cel the elevations of the floor and of the ridge of the attic
atticFloor(intcoor, fel) ==
    [i \in 0..3 |->
        <<IF i \in {1, 2} THEN intcoor[3] ELSE intcoor[1],
          IF i \in {2, 3} THEN intcoor[4] ELSE intcoor[2], fel>>]

atticSides(S, E, N, W, roofopenings) ==
    IF roofopenings # None
      THEN addsurface(S, roofopenings[0]) \o addsurface(E, roofopenings[1])
           \o addsurface(N, roofopenings[2]) \o addsurface(W, roofopenings[3])
      ELSE addsurface(S, <<>>) \o addsurface(E, <<>>)
           \o addsurface(N, <<>>) \o addsurface(W, <<>>)

hippedAttic(intcoor, p, r, fel, cel, wallThickness, topThickness, atticbottom, roofopenings) ==
    LET rA == <<r[1][1], Plus(r[1][2], wallThickness), cel>>
        rB == <<r[2][1], Minus(r[2][2], wallThickness), cel>>
        f == atticFloor(intcoor, fel)
        S == f[0] \o f[1] \o rA \o f[0]
        E == f[1] \o f[2] \o rB \o rA \o f[1]
        N == f[2] \o f[3] \o rB \o f[2]
        W == f[3] \o f[0] \o rA \o rB \o f[3]
        bottom == f[0] \o f[3] \o f[2] \o f[1] \o f[0]
    IN  atticSides(S, E, N, W, roofopenings)
        \o (IF atticbottom THEN addsurface(bottom, <<>>) ELSE <<>>)

gabledAttic(intcoor, p, r, fel, cel, wallThickness, topThickness, atticbottom, roofopenings) ==
    LET rA == <<r[1][1], Plus(r[1][2], wallThickness), cel>>
        rB == <<r[2][1], Minus(r[2][2], wallThickness), cel>>
        f == atticFloor(intcoor, fel)
        bottom == f[0] \o f[3] \o f[2] \o f[1] \o f[0]
        S == f[0] \o f[1] \o rA \o f[0]
        E == f[1] \o f[2] \o rB \o rA \o f[1]
        N == f[2] \o f[3] \o rB \o f[2]
        W == f[3] \o f[0] \o rA \o rB \o f[3]
    IN  atticSides(S, E, N, W, roofopenings)
        \o (IF atticbottom THEN addsurface(bottom, <<>>) ELSE <<>>)

pyramidalAttic(intcoor, p, r, fel, cel, wallThickness, topThickness, atticbottom, roofopenings) ==
    LET rA == <<r[1][1], r[1][2], cel>>
        f == atticFloor(intcoor, fel)
        bottom == f[0] \o f[3] \o f[2] \o f[1] \o f[0]
        S == f[0] \o f[1] \o rA \o f[0]
        E == f[1] \o f[2] \o rA \o f[1]
        N == f[2] \o f[3] \o rA \o f[2]
        W == f[3] \o f[0] \o rA \o f[3]
    IN  addsurface(bottom, <<>>) \o addsurface(S, <<>>) \o addsurface(E, <<>>)
        \o addsurface(N, <<>>) \o addsurface(W, <<>>)
        \o atticSides(S, E, N, W, roofopenings)
        \o (IF atticbottom THEN addsurface(bottom, <<>>) ELSE <<>>)

shedAttic(intcoor, p, r, fel, cel, wallThickness, topThickness, atticbottom, roofopenings) ==
    LET rA == <<Plus(r[1][1], wallThickness), Plus(r[1][2], wallThickness), cel>>
        rB == <<Plus(r[2][1], wallThickness), Minus(r[2][2], wallThickness), cel>>
        f == atticFloor(intcoor, fel)
        bottom == f[0] \o f[3] \o f[2] \o f[1] \o f[0]
        top == rA \o f[1] \o f[2] \o rB \o rA
        S == f[0] \o f[1] \o rA \o f[0]
        N == f[2] \o f[3] \o rB \o f[2]
        W == f[0] \o rA \o rB \o f[3] \o f[0]
    IN  addsurface(bottom, <<>>) \o addsurface(top, <<>>) \o addsurface(S, <<>>)
        \o addsurface(N, <<>>) \o addsurface(W, <<>>)
        \o (IF roofopenings # None
              THEN addsurface(S, roofopenings[0]) \o addsurface(N, roofopenings[2])
                   \o addsurface(W, roofopenings[3])
              ELSE addsurface(S, <<>>) \o addsurface(N, <<>>) \o addsurface(W, <<>>))
        \o (IF atticbottom THEN addsurface(bottom, <<>>) ELSE <<>>)

\* the thickness of the roof above the ridge of the attic
topThicknessOf(x, h, rtype, wallThickness, joist) ==
    LET h2 == IF rtype = "Shed"
                THEN Times(Div(h, x), Minus(x, Times(Two, wallThickness)))
                ELSE Times(Div(h, Times(Half, x)),
                           Minus(Times(Half, x), wallThickness))
    IN  Minus(Minus(h, h2), Times(Half, joist))

\* the room of one storey; the first storey takes in an alcove, and a garage
\* is a room of its own
interiorStorey(o, x, y, floor, floorHeight, wallThickness, joist, aux, buildingpart) ==
    Let(storeyPoints(o, x, y, floor, floorHeight, wallThickness, joist), LAMBDA q :
    LET withPart == floor = 1 /\ buildingpart # <<>>
        alcove == withPart /\ buildingpart[1].type = "Alcove"
        garage == withPart /\ buildingpart[1].type = "Garage"
    IN  Let(interiorPartVertices(o, x, aux, buildingpart, wallThickness, joist,
                  IF alcove THEN Minus(Plus(o[1], x), wallThickness)
                  ELSE Plus(Plus(o[1], x), Zero)), LAMBDA bp :
    LET gface0 == bp[0] \o bp[1] \o bp[5] \o bp[4] \o bp[0]
        gface1 == bp[1] \o bp[2] \o bp[6] \o bp[5] \o bp[1]
        gface2 == bp[0] \o bp[4] \o bp[7] \o bp[3] \o bp[0]
        gface3 == bp[3] \o bp[7] \o bp[6] \o bp[2] \o bp[3]
        gtop == bp[4] \o bp[5] \o bp[6] \o bp[7] \o bp[4]
        gbottom == bp[0] \o bp[3] \o bp[2] \o bp[1] \o bp[0]
        E == IF alcove
               THEN q[1] \o bp[0] \o bp[4] \o bp[7] \o bp[3] \o q[2] \o q[6]
                    \o q[5] \o q[1]
               ELSE q[1] \o q[2] \o q[6] \o q[5] \o q[1]
        faceBottom == IF alcove
                        THEN q[0] \o q[3] \o q[2] \o bp[3] \o bp[2] \o bp[1]
                             \o bp[0] \o q[1] \o q[0]
                        ELSE q[0] \o q[3] \o q[2] \o q[1] \o q[0]
        top == IF alcove
                 THEN q[4] \o q[5] \o bp[4] \o bp[5] \o bp[6] \o bp[7] \o q[6]
                      \o q[7] \o q[4]
                 ELSE q[4] \o q[5] \o q[6] \o q[7] \o q[4]
        S == q[0] \o q[1] \o q[5] \o q[4] \o q[0]
        N == q[2] \o q[3] \o q[7] \o q[6] \o q[2]
        W == q[3] \o q[0] \o q[4] \o q[7] \o q[3]
    IN  (IF alcove
           THEN addsurface(gface0, <<>>) \o addsurface(gface1, <<>>)
                \o addsurface(gface3, <<>>) \o addsurface(gtop, <<>>)
           ELSE IF garage
                  THEN OfKind("part",
                           addsurface(gface0, <<>>) \o addsurface(gface1, <<>>)
                           \o addsurface(gface2, <<>>) \o addsurface(gface3, <<>>)
                           \o addsurface(gtop, <<>>) \o addsurface(gbottom, <<>>))
                  ELSE <<>>)
        \o addsurface(faceBottom, <<>>) \o addsurface(top, <<>>)
        \o addsurface(S, <<>>) \o addsurface(E, <<>>) \o addsurface(N, <<>>)
        \o addsurface(W, <<>>)))

\* the thickness of a wall of a dormer
dormerTickness == <<1, 10>>

\* the distance of the inner face of the roof from the eave edge, across the
\* slope that rises along x
rWthOf(x, h, rtype, wallThickness, topThickness) ==
    IF rtype = "Shed"
      THEN Minus(Times(Div(topThickness, h), x), wallThickness)
      ELSE Times(Div(topThickness, h), Times(Half, x))

\* the same across the hip ends
rWth2Of(h, rtype, width, wallThickness, joist) ==
    IF rtype \in {"Hipped", "Pyramidal"}
      THEN Minus(wallThickness, Div(Times(width, Times(Half, joist)), h))
      ELSE None

\* the six vertices of the interior of one dormer, numbered as those of the
\* dormer; under a hipped or pyramidal roof the rise over the hip end is
\* divided by the ridge inset
interiordormerVertices(drm, p, h, rtype, x, width, wallThickness, rWth, topThickness, rWth2) ==
    LET o0 == drm.origin[1]
        o1 == drm.origin[2]
        s0 == drm.size[1]
        s1 == drm.size[2]
        run == IF rtype = "Shed" THEN x ELSE Times(Half, x)
        xperimiter == Div(Times(o1, run), h)
        intxper == Minus(Plus(xperimiter, dormerTickness), rWth)
        dper2 == Plus(Div(Times(Minus(Plus(o1, s1), dormerTickness), run), h), rWth)
        hper1 == Div(Times(intxper, h), run)
        yperimiter == Div(Times(o1, width), h)
        intyper == Minus(Plus(yperimiter, dormerTickness), rWth2)
        dper2_2 == Plus(Div(Times(Minus(Plus(o1, s1), dormerTickness), width), h),
                        rWth2)
        hper2 == Div(Times(intyper, h), width)
        hip == drm.side \in {0, 2}
        per == Plus(IF hip THEN yperimiter ELSE xperimiter, dormerTickness)
        dper == IF hip THEN dper2_2 ELSE dper2
        a == Plus(o0, dormerTickness)
        b == Minus(Plus(o0, s0), dormerTickness)
        zlow == Plus(p[5][3], IF hip THEN hper2 ELSE hper1)
        ztop == Minus(Plus(Plus(p[5][3], o1), s1), dormerTickness)
    IN  IF rtype \in {"Hipped", "Pyramidal"} /\ width = Zero
          THEN ZeroDivisionError
          ELSE [i \in 0..5 |->
                 GMLPointList(
                   CASE i = 0 -> featurePoint(p, drm.side, dper, a, ztop)
                     [] i = 1 -> featurePoint(p, drm.side, per, a, zlow)
                     [] i = 2 -> featurePoint(p, drm.side, per, b, zlow)
                     [] i = 3 -> featurePoint(p, drm.side, dper, b, ztop)
                     [] i = 4 -> featurePoint(p, drm.side, per, a, ztop)
                     [] i = 5 -> featurePoint(p, drm.side, per, b, ztop))]

\* the cheeks, the top and the front of the interior of a dormer
interiorDormer(d) ==
    addsurface(d[0] \o d[1] \o d[4] \o d[0], <<>>)
    \o addsurface(d[0] \o d[4] \o d[5] \o d[3] \o d[0], <<>>)
    \o addsurface(d[5] \o d[2] \o d[3] \o d[5], <<>>)
    \o addsurface(d[4] \o d[1] \o d[2] \o d[5] \o d[4], <<>>)

\* the interiors of the dormers, which the loop over the storeys computes
\* for every storey
interiorDormers(o, x, y, z, h, rtype, width, wallThickness, joist, dormers) ==
    Let(topThicknessOf(x, h, rtype, wallThickness, joist), LAMBDA topThickness :
    Let(verticesBodyList(o, x, y, z, None, None), LAMBDA pList :
        [n \in 1..Len(dormers) |->
            interiordormerVertices(dormers[n], pList, h, rtype, x, width,
                wallThickness,
                rWthOf(x, h, rtype, wallThickness, topThickness), topThickness,
                rWth2Of(h, rtype, width, wallThickness, joist))]))

\* The Solids of the interior in the order in which they are created: for
\* the first storey the garage, if there is one, then for every storey the
\* room of the storey, to whose shell the interiors of all dormers are added,
\* and last the attic with the cutouts of the dormers of the last storey.
InteriorLOD2Solids(o, x, y, z, h, floors, floorHeight, rtype, width, wallThickness, joist, aux, buildingpart, dormers) ==
    Let(interiorDormers(o, x, y, z, h, rtype, width, wallThickness, joist, dormers),
        LAMBDA dv :
    LET dormerFaces == OfKind("dormer",
                           Concat([n \in 1..Len(dormers) |-> interiorDormer(dv[n])]))
        storey(floor) ==
            Let(interiorStorey(o, x, y, floor, floorHeight, wallThickness, joist,
                               aux, buildingpart), LAMBDA faces :
                (IF \E i \in 1..Len(faces) : faces[i].kind = "part"
                   THEN <<SelectSeq(faces, LAMBDA f : f.kind = "part")>> ELSE <<>>)
                \o <<OfKindIfNone("storey",
                        SelectSeq(faces, LAMBDA f : f.kind # "part"))
                     \o dormerFaces>>)
    IN  Let(topThicknessOf(x, h, rtype, wallThickness, joist), LAMBDA topThickness :
    Let(verticesBody(o, x, y, z, None, None, None), LAMBDA p :
    LET on(side) == SelectSeq([n \in 1..Len(dormers) |-> n],
                              LAMBDA n : dormers[n].side = side)
        ropenings == [side \in 0..3 |->
                        IF floors > 0
                          THEN [j \in 1..Len(on(side)) |-> cutoutRing(dv[on(side)[j]])]
                          ELSE <<>>]
        intcoor == <<Plus(o[1], wallThickness), Plus(o[2], wallThickness),
                     Minus(Plus(o[1], x), wallThickness),
                     Minus(Plus(o[2], y), wallThickness)>>
    IN  Let(verticesRoof(<<o, x, y, z>>, h, rtype, width), LAMBDA rr :
    Let(<<GMLstring2points(rr[1])[1], GMLstring2points(rr[2])[1]>>, LAMBDA r :
    LET fel == Plus(Times(Int2R(floors), floorHeight), Times(Half, joist))
    IN  Let(Minus(r[1][3], topThickness), LAMBDA cel :
    LET attic == CASE rtype = "Gabled" ->
                        gabledAttic(intcoor, p, r, fel, cel, wallThickness,
                                    topThickness, TRUE, ropenings)
                   [] rtype = "Hipped" ->
                        hippedAttic(intcoor, p, r, fel, cel, wallThickness,
                                    topThickness, TRUE, ropenings)
                   [] rtype = "Pyramidal" ->
                        pyramidalAttic(intcoor, p, r, fel, cel, wallThickness,
                                       topThickness, TRUE, ropenings)
                   [] rtype = "Shed" ->
                        shedAttic(intcoor, p, r, fel, cel, wallThickness,
                                  topThickness, TRUE, ropenings)
    IN  Concat([floor \in 1..floors |-> storey(floor)])
        \o (IF rtype # "Flat" THEN <<OfKind("attic", attic)>> ELSE <<>>)))))))

\* the polygons of the interior, Solid after Solid
CityGMLbuildingInteriorLOD2(o, x, y, z, h, floors, floorHeight, rtype, width, wallThickness, joist, aux, buildingpart, dormers) ==
    Concat(InteriorLOD2Solids(o, x, y, z, h, floors, floorHeight, rtype, width,
                              wallThickness, joist, aux, buildingpart, dormers))

(***************************************************************************)
(* The main loop: one building                                             *)
(*                                                                         *)
(* A building is the record read from the input: origin, xsize, ysize,     *)
(* zsize, roofType, h and r (None where the roof has none), ovh (the pair  *)
(* ovhx, ovhy), door, wallWindows, embrasure, dormers, roofWindows,        *)
(* chimney and buildingpart.                                               *)
(***************************************************************************)
\* the thickness of the roof above the ridge of the attic as the interior of
\* one room takes it: under a shed roof the wall is taken off once
topThicknessLOD1(x, h, rtype, wallThickness, joist) ==
    LET h2 == IF rtype = "Shed"
                THEN Times(Div(h, x), Minus(x, wallThickness))
                ELSE Times(Div(h, Times(Half, x)),
                           Minus(Times(Half, x), wallThickness))
    IN  Minus(Minus(h, h2), Times(Half, joist))

\* the interior as one room from the first floor to the top storey, drawn
\* out around a part, with the attic above it or a ceiling under a flat roof
CityGMLbuildingInteriorLOD1(o, x, y, z, h, floors, floorHeight, rtype, width, wallThickness, joist, aux, buildingpart) ==
    LET Xa == Plus(o[1], wallThickness)
        Xb == Minus(Plus(o[1], x), wallThickness)
        Ya == Plus(o[2], wallThickness)
        Yb == Minus(Plus(o[2], y), wallThickness)
        felRoom == Times(Half, joist)
        celRoom == IF rtype = "Flat"
                     THEN Minus(Times(Int2R(floors), floorHeight), Times(Half, joist))
                     ELSE Plus(Times(Int2R(floors), floorHeight), Times(Half, joist))
        q == [i \in 0..7 |->
                <<IF i \in {1, 2, 5, 6} THEN Xb ELSE Xa,
                  IF i \in {2, 3, 6, 7} THEN Yb ELSE Ya,
                  IF i >= 4 THEN celRoom ELSE felRoom>>]
        S == q[0] \o q[1] \o q[5] \o q[4] \o q[0]
        N == q[2] \o q[3] \o q[7] \o q[6] \o q[2]
        W == q[3] \o q[0] \o q[4] \o q[7] \o q[3]
    IN  Let(interiorPartVertices(o, x, aux, buildingpart, wallThickness, joist,
                                 Minus(Plus(o[1], x), wallThickness)), LAMBDA bp :
    LET room ==
            IF buildingpart # <<>>
              THEN <<bp[0] \o bp[1] \o bp[5] \o bp[4] \o bp[0],
                     bp[1] \o bp[2] \o bp[6] \o bp[5] \o bp[1],
                     bp[3] \o bp[7] \o bp[6] \o bp[2] \o bp[3],
                     bp[4] \o bp[5] \o bp[6] \o bp[7] \o bp[4],
                     q[1] \o bp[0] \o bp[4] \o bp[7] \o bp[3] \o q[2] \o q[6]
                       \o q[5] \o q[1],
                     q[0] \o q[3] \o q[2] \o bp[3] \o bp[2] \o bp[1] \o bp[0]
                       \o q[1] \o q[0],
                     S, N, W>>
              ELSE <<q[1] \o q[2] \o q[6] \o q[5] \o q[1],
                     q[0] \o q[3] \o q[2] \o q[1] \o q[0], S, N, W>>
        top == q[4] \o q[5] \o q[6] \o q[7] \o q[4]
        intcoor == <<Xa, Ya, Xb, Yb>>
        fel == Plus(Times(Int2R(floors), floorHeight), Times(Half, joist))
    IN  Let(verticesBody(o, x, y, z, None, None, None), LAMBDA p :
    Let(verticesRoof(<<o, x, y, z>>, h, rtype, width), LAMBDA rr :
    Let(<<GMLstring2points(rr[1])[1], GMLstring2points(rr[2])[1]>>, LAMBDA r :
    Let(topThicknessLOD1(x, h, rtype, wallThickness, joist), LAMBDA topThickness :
    Let(Minus(r[1][3], topThickness), LAMBDA cel :
    LET attic == CASE rtype = "Gabled" ->
                        gabledAttic(intcoor, p, r, fel, cel, wallThickness,
                                    topThickness, FALSE, None)
                   [] rtype = "Hipped" ->
                        hippedAttic(intcoor, p, r, fel, cel, wallThickness,
                                    topThickness, FALSE, None)
                   [] rtype = "Pyramidal" ->
                        pyramidalAttic(intcoor, p, r, fel, cel, wallThickness,
                                       topThickness, FALSE, None)
                   [] rtype = "Shed" ->
                        shedAttic(intcoor, p, r, fel, cel, wallThickness,
                                  topThickness, FALSE, None)
    IN  OfKind("storey", Concat([n \in 1..Len(room) |-> addsurface(room[n], None)]))
        \o (IF rtype # "Flat" THEN OfKind("attic", attic)
            ELSE OfKind("storey", addsurface(top, None)))))))))

offset == <<1, 5>>

\* the auxiliary data handed to the constructors
auxOf(b, ovhy_recalculated) ==
    [ovhx |-> b.ovh[1], ovhy |-> ovhy_recalculated, origin |-> b.origin,
     xsize |-> b.xsize, ysize |-> b.ysize, zsize |-> b.zsize, offset |-> offset,
     adjxsize_offset |-> Plus(b.xsize, Times(Two, Minus(b.ovh[1], offset))),
     adjysize_offset |-> Plus(b.ysize, Times(Two, Minus(ovhy_recalculated, offset)))]

\* The exception a constructor ends with when it is called for the body and
\* roof of b with the overhangs ovh, the door and the wall windows; "" when
\* it returns.  The constructors from LOD2 on compute the overhangs when they
\* are given any, and the LOD3 constructors then the rings of the openings;
\* the interior constructors of LOD1 and LOD2 take the ridge of a roof that
\* is not flat, and the interior of LOD2 places the interiors of the dormers
\* it is given.
raised(ctor, b, ovh, door, wallWindows, dormers, chimney) ==
    LET body == <<b.origin, b.xsize, b.ysize, b.zsize>>
        p == verticesBody(b.origin, b.xsize, b.ysize, b.zsize, None, None, None)
        pList == verticesBodyList(b.origin, b.xsize, b.ysize, b.zsize, None, None)
        r == verticesRoof(body, b.h, b.roofType, b.r)
        ring(ops) == \E i \in 1..Len(ops) : openingRing(ops[i], pList) = ValueError
    IN  IF /\ ctor \in {"LOD2Solid", "LOD2Semantics", "LOD3Semantics", "LOD3Solid"}
           /\ ovh # None
           /\ verticesOverhangs(body, p, b.h, b.roofType, ovh, r, b.r)
                  = UnboundLocalError
          THEN "UnboundLocalError"
        \* the chimneys are placed before the openings of the walls
        ELSE IF /\ ctor = "LOD3Semantics"
                /\ \E n \in 1..Len(chimney) :
                      chimneyVertices(chimney, pList, b.h, b.roofType, b.xsize,
                                      b.r)[n] = IndexError
          THEN "IndexError"
        ELSE IF /\ ctor \in {"LOD3Semantics", "LOD3Solid"}
                /\ (ring(door) \/ ring(wallWindows))
          THEN "ValueError"
        \* the attic reads r[0] of the ridge
        ELSE IF /\ ctor \in {"InteriorLOD1", "InteriorLOD2"}
                /\ b.roofType # "Flat"
                /\ r = <<>>
          THEN "IndexError"
        ELSE IF /\ ctor = "InteriorLOD2"
                /\ b.floors > 0
                /\ \E n \in 1..Len(dormers) :
                      interiorDormers(b.origin, b.xsize, b.ysize, b.zsize, b.h,
                          b.roofType, b.r, b.wallThickness, b.joist, dormers)[n]
                        = ZeroDivisionError
          THEN "ZeroDivisionError"
        ELSE ""

\* the exception the first pass over b ends with, "" when it returns
firstPassRaised(b) ==
    raised("LOD3Semantics", b, b.ovh, b.door, b.wallWindows, b.dormers, b.chimney)

\* the first pass, which measures the eaves, the y-overhang and the chimney
measure(b) ==
    Let(CityGMLbuildingLOD3Semantics(b.origin, b.xsize, b.ysize, b.zsize,
                   b.h, b.roofType, b.ovh, b.r, b.door, b.wallWindows, b.dormers,
                   b.roofWindows, b.chimney, b.embrasure, 1,
                   auxOf(b, Zero), <<>>, FALSE), LAMBDA res :
        [chimneyHeight |-> res.chimneyHeight, eaves |-> res.eaves,
         ovhy_recalculated |-> res.ovhy_recalculated])

\* the projection whose rise is not raised by the drop of the eave
footprintF1_sameRise(b, m) ==
    LET drop == Minus(b.zsize, m.eaves)
    IN  [o |-> <<Minus(b.origin[1], b.ovh[1]),
                 Minus(b.origin[2], m.ovhy_recalculated), b.origin[3]>>,
         x |-> Plus(b.xsize, Times(Two, b.ovh[1])),
         y |-> Plus(b.ysize, Times(Two, m.ovhy_recalculated)),
         z |-> Minus(b.zsize, drop),
         h |-> b.h,
         r |-> IF b.r # None THEN Plus(b.r, m.ovhy_recalculated) ELSE None]

\* the projection taken with the y-overhang of the input
footprintF1_inputOvhy(b, m) ==
    LET drop == Minus(b.zsize, m.eaves)
    IN  [o |-> <<Minus(b.origin[1], b.ovh[1]), Minus(b.origin[2], b.ovh[2]),
                 b.origin[3]>>,
         x |-> Plus(b.xsize, Times(Two, b.ovh[1])),
         y |-> Plus(b.ysize, Times(Two, b.ovh[2])),
         z |-> Minus(b.zsize, drop),
         h |-> IF b.h # None
                 THEN IF b.roofType = "Shed" THEN Plus(b.h, Times(Two, drop))
                      ELSE Plus(b.h, drop)
                 ELSE None,
         r |-> IF b.r # None THEN Plus(b.r, b.ovh[2]) ELSE None]

\* modelling rule F1: the footprint is the projection of the roof overhangs
footprintF1(b, m) ==
    LET drop == Minus(b.zsize, m.eaves)
    IN  [o |-> <<Minus(b.origin[1], b.ovh[1]),
                 Minus(b.origin[2], m.ovhy_recalculated), b.origin[3]>>,
         x |-> Plus(b.xsize, Times(Two, b.ovh[1])),
         y |-> Plus(b.ysize, Times(Two, m.ovhy_recalculated)),
         z |-> Minus(b.zsize, drop),
         h |-> IF b.h # None
                 THEN IF b.roofType = "Shed" THEN Plus(b.h, Times(Two, drop))
                      ELSE Plus(b.h, drop)
                 ELSE None,
         r |-> IF b.r # None THEN Plus(b.r, m.ovhy_recalculated) ELSE None]

\* modelling rule Fd: the footprint is at an offset from that projection
footprintFd(b, m) ==
    LET ovhx == b.ovh[1]
        drop == Minus(b.zsize, m.eaves)
    IN  Let(IF Less(offset, ovhx)
                THEN Div(Times(drop, Minus(ovhx, offset)), ovhx)
              ELSE IF ovhx # Zero
                THEN Plus(Minus(Times(drop, Div(offset, ovhx)), b.zsize), m.eaves)
              ELSE Times(b.h, Div(offset, Times(b.xsize, Half))), LAMBDA eo :
    Let(IF b.h # None
                THEN IF Less(offset, ovhx)
                       THEN <<Minus(b.zsize, eo),
                              IF b.roofType = "Shed" THEN Plus(b.h, Times(Two, eo))
                              ELSE Plus(b.h, eo)>>
                     ELSE IF offset = ovhx THEN <<b.zsize, b.h>>
                     ELSE <<Plus(b.zsize, eo),
                            IF b.roofType = "Shed" THEN Minus(b.h, Times(Two, eo))
                            ELSE Minus(b.h, eo)>>
                ELSE <<b.zsize, None>>, LAMBDA zh :
        [o |-> <<Plus(Minus(b.origin[1], ovhx), offset),
                 Plus(Minus(b.origin[2], m.ovhy_recalculated), offset),
                 b.origin[3]>>,
         x |-> Plus(b.xsize, Times(Two, Minus(ovhx, offset))),
         y |-> Plus(b.ysize, Times(Two, Minus(m.ovhy_recalculated, offset))),
         z |-> zh[1],
         h |-> zh[2],
         r |-> IF b.r # None
                 THEN IF Less(Zero, b.r)
                        THEN Minus(Plus(b.r, m.ovhy_recalculated), offset)
                        ELSE Zero
                 ELSE None]))

\* the footprint as given (F0)
footprintF0(b) ==
    [o |-> b.origin, x |-> b.xsize, y |-> b.ysize, z |-> b.zsize, h |-> b.h,
     r |-> b.r]

\* the roof features moved with the footprint
featuresAdjusted(feats, roofType, eaves, overhang_x, overhang_y) ==
    [k \in 1..Len(feats) |->
        [feats[k] EXCEPT !.origin =
            adjustRoofFeatures(roofType, eaves, feats[k].origin, overhang_x,
                               overhang_y, feats[k].side)]]

\* the geometric references for the height of the LOD1 blocks
heightReferences(f1) ==
    IF f1.h # None
      THEN [onethird |-> Plus(Times(f1.h, <<1, 3>>), f1.z),
            half |-> Plus(Times(f1.h, Half), f1.z),
            twothird |-> Plus(Times(f1.h, <<2, 3>>), f1.z)]
      ELSE [onethird |-> f1.z, half |-> f1.z, twothird |-> f1.z]

\* everything derived for one building before its models are generated
adjust(b, m) ==
    LET f1 == footprintF1(b, m)
    IN  Let(footprintFd(b, m), LAMBDA fd :
    LET drop == Minus(b.zsize, m.eaves)
    IN  Let(Minus(b.zsize, fd.z), LAMBDA dropd :
    LET ox == Minus(b.ovh[1], offset)
        oy == Minus(m.ovhy_recalculated, offset)
        rt == b.roofType
    IN  [F0 |-> footprintF0(b), F1 |-> f1, Fd |-> fd,
         aux |-> auxOf(b, m.ovhy_recalculated),
         chimney_ovh |-> featuresAdjusted(b.chimney, rt, drop, b.ovh[1],
                                          m.ovhy_recalculated),
         chimney_offset |-> featuresAdjusted(b.chimney, rt, dropd, ox, oy),
         dormers_ovh |-> featuresAdjusted(b.dormers, rt, drop, b.ovh[1],
                                          m.ovhy_recalculated),
         dormers_offset |-> featuresAdjusted(b.dormers, rt, dropd, ox, oy),
         roofWindows_ovh |-> featuresAdjusted(b.roofWindows, rt, drop, b.ovh[1],
                                              m.ovhy_recalculated),
         roofWindows_offset |-> featuresAdjusted(b.roofWindows, rt, dropd, ox, oy),
         ref |-> heightReferences(f1)]))

(***************************************************************************)
(* The buildings read from the input                                       *)
(***************************************************************************)
\* overhangs run from 0 to MaxOvh tenths
MaxOvh == 3

RoofTypes == {"Flat", "Shed", "Gabled", "Hipped", "Pyramidal"}

NoPart == <<>>

Garage == <<[type |-> "Garage", o |-> Int2R(1), x |-> Int2R(2), y |-> Int2R(4),
             z |-> Int2R(3)]>>

Alcove == <<[type |-> "Alcove", o |-> <<17, 4>>, x |-> Half, y |-> <<3, 2>>,
             z |-> Int2R(3)]>>

Opening(wall, ox, oy, w, hh) ==
    [wall |-> wall, origin |-> <<ox, oy>>, size |-> <<w, hh>>]

Feature(side, ox, oy, w, hh) ==
    [side |-> side, origin |-> <<ox, oy>>, size |-> <<w, hh>>]

Chimney(side) ==
    <<[side |-> side, origin |-> <<Int2R(1), Half>>,
       size |-> <<<<3, 10>>, <<3, 10>>, Int2R(1)>>]>>

\* the doors, windows and roof features of a building, by profile
Profile(rt, f) ==
    LET s1 == IF rt \in {"Hipped", "Pyramidal"} THEN 0 ELSE 1
        s2 == IF rt = "Gabled" THEN 3
              ELSE IF rt \in {"Hipped", "Pyramidal"} THEN 2 ELSE 1
        at(side, nth) == IF side \in {0, 2} THEN Int2R(2)
                         ELSE IF nth = 1 THEN Int2R(3) ELSE Int2R(6)
        drm(side, nth) == Feature(side, at(side, nth), Half, <<3, 2>>, Int2R(1))
        rfw(side, nth) == Feature(side, at(side, nth), Half, Int2R(1), Int2R(1))
        sloped == rt # "Flat"
    IN  CASE f = "bare" ->
               [door |-> <<Opening(0, Int2R(2), Zero, Int2R(1), Int2R(2))>>,
                wallWindows |-> <<>>, embrasure |-> Zero, dormers |-> <<>>,
                roofWindows |-> <<>>, chimney |-> <<>>]
          [] f = "deep" ->
               [door |-> <<Opening(0, Int2R(2), Zero, Int2R(1), Int2R(2))>>,
                wallWindows |-> <<Opening(2, Int2R(1), Int2R(1), Int2R(1), Int2R(1)),
                                  Opening(3, Int2R(4), Int2R(4), Int2R(2), Int2R(1))>>,
                embrasure |-> <<1, 10>>,
                dormers |-> IF sloped THEN <<drm(s1, 1)>> ELSE <<>>,
                roofWindows |-> <<>>, chimney |-> Chimney(1)]
          [] f = "flush" ->
               [door |-> <<Opening(2, Int2R(2), Zero, Int2R(1), Int2R(2))>>,
                wallWindows |-> <<Opening(0, Int2R(4), Int2R(1), Int2R(1), Int2R(1)),
                                  Opening(3, Int2R(1), Int2R(1), Int2R(1), Int2R(1))>>,
                embrasure |-> Zero,
                dormers |-> IF sloped THEN <<drm(1, 1), drm(s2, 2)>> ELSE <<>>,
                roofWindows |-> <<>>, chimney |-> <<>>]
          [] f = "skylit" ->
               [door |-> <<Opening(3, Int2R(2), Zero, Int2R(1), Int2R(2))>>,
                wallWindows |-> <<Opening(0, Int2R(1), Int2R(1), Int2R(1), Int2R(1))>>,
                embrasure |-> <<1, 10>>, dormers |-> <<>>,
                roofWindows |-> <<rfw(1, 1), rfw(s2, 2)>>,
                chimney |-> IF rt \in {"Shed", "Flat"} THEN Chimney(1) ELSE Chimney(3)]

Building(rt, xs, ys, zs, hh, ovhx, ovhy, part, f) ==
    Let(Profile(rt, f), LAMBDA pr :
        [origin |-> <<Int2R(20), Int2R(40), Zero>>, xsize |-> xs, ysize |-> ys,
         zsize |-> zs, roofType |-> rt,
         h |-> IF rt = "Flat" THEN None ELSE hh,
         r |-> IF rt = "Hipped" THEN Int2R(2)
               ELSE IF rt = "Pyramidal" THEN Times(Half, ys) ELSE None,
         ovh |-> <<ovhx, ovhy>>, door |-> pr.door, wallWindows |-> pr.wallWindows,
         embrasure |-> pr.embrasure, dormers |-> pr.dormers,
         roofWindows |-> pr.roofWindows, chimney |-> pr.chimney,
         buildingpart |-> part,
         floors |-> zs[1] \div (3 * zs[2]),
         floorHeight |-> Div(zs, Int2R(zs[1] \div (3 * zs[2]))),
         wallThickness |-> <<1, 5>>, joist |-> <<1, 5>>])

\* the overhangs: ovhx in tenths, ovhy equal to ovhx or, where there is an
\* overhang, one half
Overhangs ==
    UNION {{<<Rat(k, 10), Rat(k, 10)>>}
           \cup (IF k > 0 THEN {<<Rat(k, 10), Half>>} ELSE {}) : k \in 0..MaxOvh}

Standard(rt, ovh, part, f) ==
    Building(rt, Int2R(6), Int2R(10), Int2R(6), <<7, 2>>, ovh[1], ovh[2], part, f)

\* the flat building of width 5, depth 4 and height 6 at the origin (0, 0, 0),
\* without door, windows, overhangs and part
FlatBox ==
    [Building("Flat", Int2R(5), Int2R(4), Int2R(6), None, Zero, Zero, NoPart,
              "bare")
        EXCEPT !.origin = <<Zero, Zero, Zero>>, !.door = <<>>]

\* the buildings with a bare roof, the buildings with roof features, the
\* gabled building of width 6, depth 5, eave height 6 and rise 2, and the
\* buildings whose overhang is as long as their alcove
Buildings ==
    {Standard(rt, ovh, part, "bare") :
        rt \in RoofTypes, ovh \in Overhangs, part \in {NoPart, Garage, Alcove}}
    \cup {Standard(rt, <<ox, ox>>, part, f) :
            rt \in RoofTypes, ox \in {Zero, Rat(MaxOvh, 10)},
            part \in {NoPart, Garage}, f \in {"deep", "flush", "skylit"}}
    \cup {Building("Gabled", Int2R(6), Int2R(5), Int2R(6), Int2R(2), Half,
                   <<3, 10>>, NoPart, "bare")}
    \cup {Standard(rt, <<Half, Half>>, Alcove, "bare") : rt \in RoofTypes}
    \cup {FlatBox}

\* the buildings with an overhang in one direction only, and those whose
\* ridge inset is zero
Degenerate ==
    {Standard(rt, <<Zero, Half>>, NoPart, "bare") : rt \in RoofTypes}
    \cup {Standard(rt, <<Half, Zero>>, NoPart, "bare") : rt \in {"Gabled", "Hipped"}}
    \cup {[Standard("Hipped", ovh, NoPart, f) EXCEPT !.r = Zero] :
            ovh \in {<<Zero, Zero>>, <<Rat(3, 10), Rat(3, 10)>>},
            f \in {"bare", "deep"}}
    \cup {[Standard("Pyramidal", <<Zero, Zero>>, NoPart, "bare") EXCEPT !.r = Zero]}

\* the inputs the program does not check when it reads them: a roof type it
\* does not know, read as a sloped roof with a height and no ridge inset, and
\* a door or a wall window on a wall other than 0..3
Malformed ==
    {[Standard("Gabled", ovh, NoPart, "bare") EXCEPT !.roofType = "Mansard"] :
        ovh \in {<<Zero, Zero>>, <<Rat(3, 10), Rat(3, 10)>>}}
    \cup {[Standard("Gabled", <<Zero, Zero>>, NoPart, "bare")
              EXCEPT !.door[1].wall = wall] : wall \in {-1, 4}}
    \cup {[Standard("Hipped", <<Zero, Zero>>, NoPart, "deep")
              EXCEPT !.wallWindows[2].wall = wall] : wall \in {-1, 5}}

\* the buildings with a four-sloped roof whose features are on the sides
\* that the buildings above leave bare: dormers on the west and south
\* slopes, roof windows on the north and west slopes, and a chimney on each
\* side
FourSloped ==
    {[Standard(rt, <<Zero, Zero>>, NoPart, "flush")
        EXCEPT !.dormers = <<Feature(3, Int2R(3), Half, <<3, 2>>, Int2R(1)),
                             Feature(0, Int2R(2), Half, <<3, 2>>, Int2R(1))>>,
               !.chimney = Chimney(side)] :
        rt \in {"Hipped", "Pyramidal"}, side \in {1, 3}}
    \cup {[Standard(rt, <<Zero, Zero>>, NoPart, "skylit")
             EXCEPT !.roofWindows = <<Feature(2, Int2R(2), Half, Int2R(1), Int2R(1)),
                                      Feature(3, Int2R(3), Half, Int2R(1), Int2R(1))>>,
                    !.chimney = Chimney(side)] :
             rt \in {"Hipped", "Pyramidal"}, side \in {0, 2}}

\* the gabled buildings with two dormers and, next to the dormer of the east
\* slope, a roof window
DormersAndRoofWindows ==
    {[Standard("Gabled", ovh, NoPart, "flush")
        EXCEPT !.roofWindows = <<Feature(1, Int2R(6), Half, Int2R(1), Int2R(1))>>] :
        ovh \in {<<Zero, Zero>>, <<Rat(3, 10), Rat(3, 10)>>}}

\* the gabled buildings whose origin lies 5 above the datum
Elevated ==
    {[Standard("Gabled", ovh, NoPart, "bare")
        EXCEPT !.origin = <<Int2R(20), Int2R(40), Int2R(5)>>] :
        ovh \in {<<Zero, Zero>>, <<Rat(3, 10), Rat(3, 10)>>}}

(***************************************************************************)
(* The models generated for each building                                  *)
(*                                                                         *)
(* A call names the constructor, the footprint rule (F0, F1 or Fd), the    *)
(* level, the representation, the top and the height reference of an LOD1  *)
(* block, the overhang passed (none, zero, the given one or the offset),   *)
(* the dormers passed (none, plain, moved with F1 or moved with Fd),       *)
(* the detail passed (none, the roof windows and chimney, or these and the *)
(* door and windows), whether the embrasure is passed, and whether the     *)
(* model is an aerial one.                                                 *)
(***************************************************************************)
Call(name, ctor, fp, LOD, rep, top, ref, ovh, dormers, detail, emb, aerial) ==
    [name |-> name, ctor |-> ctor, fp |-> fp, LOD |-> LOD, rep |-> rep,
     top |-> top, ref |-> ref, ovh |-> ovh, dormers |-> dormers,
     detail |-> detail, emb |-> emb, aerial |-> aerial]

Block(name, fp, LOD, top, ref) ==
    Call(name, "LOD1Solid", fp, LOD, "solid", top, ref, "none", "none", "none",
         FALSE, FALSE)

Calls ==
    << Block("LOD1_1_F0_H3_solid", "F0", "1.1", None, "half"),
       Block("LOD1_1_F1_H5_solid", "F1", "1.1", Int2R(1), "chimney"),
       Block("LOD1_1_Fd_H1_solid", "Fd", "1.1", Zero, "none"),
       Block("LOD1_2_F0_H0_solid", "F0", "1.2", None, "eaves"),
       Block("LOD1_2_F1_H3_solid", "F1", "1.2", None, "half"),
       Block("LOD1_2_Fd_H5_solid", "Fd", "1.2", Int2R(1), "chimney"),
       Block("LOD1_3_F0_H5_solid", "F0", "1.3", Int2R(1), "chimney"),
       Block("LOD1_3_F1_H0_solid", "F1", "1.3", None, "eaves"),
       Block("LOD1_3_Fd_H3_solid", "Fd", "1.3", None, "half"),
       Call("LOD2_0_Fd", "LOD2Semantics", "Fd", "2.0", "", None, "", "none",
            "none", "none", FALSE, FALSE),
       Call("LOD2_0_F1_S0", "LOD2Solid", "F1", "2.0", "brep", None, "", "none",
            "none", "none", FALSE, FALSE),
       Call("LOD2_0_F0_solid", "LOD2Solid", "F0", "2.0", "solid", None, "",
            "none", "none", "none", FALSE, FALSE),
       Call("LOD2_1_F0", "LOD2Semantics", "F0", "2.1", "", None, "", "none",
            "none", "none", FALSE, FALSE),
       Call("LOD2_1_F1_solid", "LOD2Solid", "F1", "2.1", "solid", None, "",
            "none", "none", "none", FALSE, FALSE),
       Call("LOD2_1_Fd_solid", "LOD2Solid", "Fd", "2.1", "solid", None, "",
            "none", "none", "none", FALSE, FALSE),
       Call("LOD2_2_F0", "LOD3Semantics", "F0", "", "", None, "", "zero",
            "plain", "none", FALSE, TRUE),
       Call("LOD2_2_F0_solid", "LOD3Solid", "F0", "", "solid", None, "", "zero",
            "plain", "none", FALSE, FALSE),
       Call("LOD2_2_Fd", "LOD3Semantics", "Fd", "", "", None, "", "offset",
            "offset", "none", FALSE, TRUE),
       Call("LOD2_2_F1_solid", "LOD3Solid", "F1", "", "solid", None, "", "zero",
            "ovh", "none", FALSE, FALSE),
       Call("LOD2_2_Fd_solid", "LOD3Solid", "Fd", "", "solid", None, "",
            "offset", "offset", "none", FALSE, FALSE),
       Call("LOD2_3_F0", "LOD2Semantics", "F0", "2.3", "", None, "", "given",
            "none", "none", FALSE, FALSE),
       Call("LOD2_3_Fd", "LOD2Semantics", "Fd", "2.3", "", None, "", "offset",
            "none", "none", FALSE, FALSE),
       Call("LOD2_3_F0_S0", "LOD3Solid", "F0", "", "brep", None, "", "given",
            "none", "none", FALSE, FALSE),
       Call("LOD3_2", "LOD3Semantics", "F0", "", "", None, "", "given", "plain",
            "all", FALSE, FALSE),
       Call("LOD3_2_solid", "LOD3Solid", "F0", "", "solid", None, "", "given",
            "plain", "none", FALSE, FALSE),
       Call("LOD3_3", "LOD3Semantics", "F0", "", "", None, "", "given", "plain",
            "all", TRUE, FALSE),
       Call("LOD3_3_solid", "LOD3Solid", "F0", "", "solid", None, "", "given",
            "plain", "all", TRUE, FALSE),
       Call("LOD3_0", "LOD3Semantics", "F1", "", "", None, "", "zero", "ovh",
            "roof", FALSE, TRUE),
       Call("LOD3_0_solid", "LOD3Solid", "F1", "", "solid", None, "", "zero",
            "ovh", "roof", FALSE, TRUE),
       Call("interior-LOD0", "InteriorLOD0", "F0", "", "", None, "", "none",
            "none", "none", FALSE, FALSE),
       Call("interior-LOD1", "InteriorLOD1", "F0", "", "", None, "", "none",
            "none", "none", FALSE, FALSE),
       Call("interior-LOD2_2", "InteriorLOD2", "F0", "", "", None, "", "none",
            "none", "none", FALSE, FALSE),
       Call("interior-LOD2_3", "InteriorLOD2", "F0", "", "", None, "", "none",
            "plain", "none", FALSE, FALSE) >>

(***************************************************************************)
(* Rotation of the coordinates                                             *)
(***************************************************************************)
\* math.sin(math.radians(angle)) and math.cos(math.radians(angle)) of the
\* angles of the inputs and of their opposites (36.87, 16.26 and 0 degrees
\* either way), to the precision the angles are given with
sine_rotation(angle_of_rotation) ==
    CASE angle_of_rotation = Div(Int2R(3687), Int2R(100)) -> Div(Int2R(3), Int2R(5))
      [] angle_of_rotation = Div(Int2R(-3687), Int2R(100)) -> Div(Int2R(-3), Int2R(5))
      [] angle_of_rotation = Div(Int2R(813), Int2R(50)) -> Div(Int2R(7), Int2R(25))
      [] angle_of_rotation = Div(Int2R(-813), Int2R(50)) -> Div(Int2R(-7), Int2R(25))
      [] angle_of_rotation = Zero -> Zero

cosine_rotation(angle_of_rotation) ==
    CASE angle_of_rotation = Div(Int2R(3687), Int2R(100)) -> Div(Int2R(4), Int2R(5))
      [] angle_of_rotation = Div(Int2R(-3687), Int2R(100)) -> Div(Int2R(4), Int2R(5))
      [] angle_of_rotation = Div(Int2R(813), Int2R(50)) -> Div(Int2R(24), Int2R(25))
      [] angle_of_rotation = Div(Int2R(-813), Int2R(50)) -> Div(Int2R(24), Int2R(25))
      [] angle_of_rotation = Zero -> Int2R(1)

\* the rotation with the sign of one sine term changed
rotator_sheared(vertex, sine, cos, origin_of_rotation) ==
    <<Plus(Plus(Times(Minus(vertex[1], origin_of_rotation[1]), cos),
                Times(Minus(vertex[2], origin_of_rotation[2]), sine)),
           origin_of_rotation[1]),
      Plus(Plus(Times(Minus(vertex[1], origin_of_rotation[1]), sine),
                Times(Minus(vertex[2], origin_of_rotation[2]), cos)),
           origin_of_rotation[2]),
      vertex[3]>>

rotator(vertex, sine, cos, origin_of_rotation) ==
    <<Plus(Minus(Times(Minus(vertex[1], origin_of_rotation[1]), cos),
                 Times(Minus(vertex[2], origin_of_rotation[2]), sine)),
           origin_of_rotation[1]),
      Plus(Plus(Times(Minus(vertex[1], origin_of_rotation[1]), sine),
                Times(Minus(vertex[2], origin_of_rotation[2]), cos)),
           origin_of_rotation[2]),
      vertex[3]>>

\* the text of a posList after the rotation of its points
rotatedPosList(text, sine, cos, origin_of_rotation) ==
    multiGMLPointList([i \in 1..(Len(text) \div 3) |->
        rotator(GMLstring2points(text)[i], sine, cos, origin_of_rotation)])

\* every posList of a surface: its exterior ring and its interior rings
rotatedSurface(surface, sine, cos, origin_of_rotation) ==
    [surface EXCEPT
        !.ext = rotatedPosList(@, sine, cos, origin_of_rotation),
        !.int = [j \in 1..Len(@) |->
                    rotatedPosList(@[j], sine, cos, origin_of_rotation)]]

\* the rotation of every cityObjectMember of a document, whichever building
\* it is of
rotatedEntities_all(entities, id, sine, cos, origin_of_rotation) ==
    [e \in 1..Len(entities) |->
        [entities[e] EXCEPT !.surfaces =
            [i \in 1..Len(@) |-> rotatedSurface(@[i], sine, cos, origin_of_rotation)]]]

\* the cityObjectMembers of a document, those of the building with this
\* gml:id rotated
rotatedEntities(entities, id, sine, cos, origin_of_rotation) ==
    [e \in 1..Len(entities) |->
        IF entities[e].ID = id
        THEN [entities[e] EXCEPT !.surfaces =
                [i \in 1..Len(@) |->
                    rotatedSurface(@[i], sine, cos, origin_of_rotation)]]
        ELSE entities[e]]

(***************************************************************************)
(* The inputs of a run                                                     *)
(***************************************************************************)
\* the <windows> elements of a building: none without wall windows, else
\* one with its <window> elements, each with the depth of the embrasure
windowsXML(b) ==
    IF b.wallWindows = <<>> THEN <<>>
    ELSE <<[n \in 1..Len(b.wallWindows) |->
              [wall |-> b.wallWindows[n].wall, origin |-> b.wallWindows[n].origin,
               size |-> b.wallWindows[n].size, depth |-> b.embrasure]]>>

\* a <building> record of the input: its ID, its angle of rotation, its
\* <windows> element and the rest of its specification
Record(id, angle, b) ==
    [ID |-> id, rotation |-> angle, windows |-> windowsXML(b), spec |-> b]

\* the record of a building without wall windows whose <windows> element is
\* there and has no <window>
RecordNoWindow(id, angle, b) == [Record(id, angle, b) EXCEPT !.windows = << <<>> >>]

\* the longest input with more than one building
MaxRun == 2

\* the buildings of the inputs with more than one building
RunBuildings ==
    {[angle |-> Div(Int2R(3687), Int2R(100)),
      b |-> Standard("Hipped", <<Zero, Zero>>, Garage, "bare")],
     [angle |-> Div(Int2R(-813), Int2R(50)), b |-> FlatBox],
     [angle |-> Div(Int2R(-813), Int2R(50)),
      b |-> Standard("Gabled", <<Zero, Zero>>, NoPart, "bare")]}

\* the inputs: every building alone, every sequence of the buildings above,
\* and a building with an empty <windows> element alone and after a building
\* with windows; the ID of a building is unique in its input
Inputs ==
    {<<Record(1, Div(Int2R(3687), Int2R(100)), b)>> :
        b \in Buildings \cup Degenerate \cup Malformed \cup FourSloped
               \cup Elevated \cup DormersAndRoofWindows}
    \cup UNION {{[i \in 1..n |-> Record(i, f[i].angle, f[i].b)] :
                    f \in [1..n -> RunBuildings]} : n \in 2..MaxRun}
    \cup {<<RecordNoWindow(1, Zero, Standard("Gabled", <<Zero, Zero>>, NoPart, "bare"))>>}
    \cup {<<Record(1, Zero, Standard("Gabled", <<Zero, Zero>>, NoPart, f)),
             RecordNoWindow(2, Zero,
                            Standard("Gabled", <<Zero, Zero>>, NoPart, "bare"))>> :
            f \in {"deep", "flush"}}

\* the documents, one per model generated
Representations == {Calls[i].name : i \in 1..Len(Calls)}

(***************************************************************************)
(* The program as a state machine                                          *)
(*                                                                         *)
(* buildings is the input and buildingcounter the number of buildings      *)
(* read, ROTATIONENABLED the option of that name, CityGMLs the documents   *)
(* with the cityObjectMembers added so far; bldg is the building being     *)
(* processed, measured the result of the first pass, adj the derived       *)
(* footprints and features, k the index of the next model to generate and  *)
(* out the polygons of the model generated last.                           *)
(***************************************************************************)
VARIABLES buildings, buildingcounter, ROTATIONENABLED, CityGMLs, bldg, pc, measured, adj, k, out, winXML

vars == <<buildings, buildingcounter, ROTATIONENABLED, CityGMLs, bldg, pc, measured, adj, k, out, winXML>>

\* rotation is enabled unless it is switched off; it is switched off for
\* inputs with more than one building only
Init ==
    /\ buildings \in Inputs
    /\ ROTATIONENABLED \in IF Len(buildings) = 1 THEN {TRUE} ELSE BOOLEAN
    /\ buildingcounter = 0
    /\ CityGMLs = [representation \in Representations |-> <<>>]
    /\ bldg = <<>>
    /\ pc = "read"
    /\ measured = <<>>
    /\ adj = <<>>
    /\ k = 0
    /\ out = <<>>
    /\ winXML = <<>>

\* the wall windows read from the <windows> element
wallWindowsRead(allwindowsXML) ==
    IF allwindowsXML = <<>> THEN <<>>
    ELSE [n \in 1..Len(allwindowsXML[1]) |->
            [wall |-> allwindowsXML[1][n].wall, origin |-> allwindowsXML[1][n].origin,
             size |-> allwindowsXML[1][n].size]]

\* The next building is read from the input.  The depth of the embrasure is
\* read from winXML, the variable of the loop over the <window> elements,
\* after that loop: it is the last <window> met so far in the run (winXML
\* holds it, and is empty before the first).
ReadBuilding ==
    /\ pc = "read"
    /\ buildingcounter < Len(buildings)
    /\ buildingcounter' = buildingcounter + 1
    /\ LET b == buildings[buildingcounter + 1]
           allwindowsXML == b.windows
       IN  /\ winXML' = IF allwindowsXML # <<>> /\ allwindowsXML[1] # <<>>
                           THEN <<allwindowsXML[1][Len(allwindowsXML[1])]>>
                           ELSE winXML
           /\ bldg' = [b.spec EXCEPT
                         !.wallWindows = wallWindowsRead(allwindowsXML),
                         !.embrasure = IF allwindowsXML = <<>> THEN Zero
                                       ELSE IF winXML' = <<>> THEN @
                                       ELSE winXML'[1].depth]
           \* winXML is read before any <window> has been met
           /\ pc' = IF allwindowsXML # <<>> /\ winXML' = <<>> THEN "error"
                    ELSE "measure"
    /\ UNCHANGED <<buildings, ROTATIONENABLED, CityGMLs, measured, adj, k, out>>

\* the first pass over the building
Measure ==
    /\ pc = "measure"
    /\ IF firstPassRaised(bldg) = ""
         THEN measured' = measure(bldg) /\ pc' = "adjust"
         \* an exception is not caught: the run ends
         ELSE measured' = measured /\ pc' = "error"
    /\ UNCHANGED <<buildings, buildingcounter, ROTATIONENABLED, CityGMLs, bldg, adj, k, out, winXML>>

\* the footprints and features are derived
Adjust ==
    /\ pc = "adjust"
    /\ adj' = adjust(bldg, measured)
    /\ pc' = "emit"
    /\ k' = 1
    /\ UNCHANGED <<buildings, buildingcounter, ROTATIONENABLED, CityGMLs, bldg, measured, out, winXML>>

\* the ID and the angle of rotation of the building being processed
ID == buildings[buildingcounter].ID

angle_of_rotation == buildings[buildingcounter].rotation

\* the model generated is added to its document as a cityObjectMember with
\* the ID of the building
Stored ==
    CityGMLs' = [CityGMLs EXCEPT ![Calls[k].name] =
                    Append(@, [ID |-> ID, surfaces |-> out'])]

footprintOf(c) ==
    CASE c.fp = "F0" -> adj.F0 [] c.fp = "F1" -> adj.F1 [] c.fp = "Fd" -> adj.Fd

overrideOf(c) ==
    CASE c.ref = "half" -> adj.ref.half
      [] c.ref = "eaves" -> measured.eaves
      [] c.ref = "chimney" -> measured.chimneyHeight
      [] OTHER -> None

ovhOf(c) ==
    CASE c.ovh = "zero" -> <<Zero, Zero>>
      [] c.ovh = "given" -> bldg.ovh
      [] c.ovh = "offset" -> <<offset, offset>>
      [] OTHER -> None

dormersOf(c) ==
    CASE c.dormers = "plain" -> bldg.dormers
      [] c.dormers = "ovh" -> adj.dormers_ovh
      [] c.dormers = "offset" -> adj.dormers_offset
      [] OTHER -> <<>>

roofWindowsOf(c) ==
    IF c.detail = "none" THEN <<>>
    ELSE IF c.dormers = "ovh" THEN adj.roofWindows_ovh ELSE bldg.roofWindows

chimneyOf(c) ==
    IF c.detail = "none" THEN <<>>
    ELSE IF c.dormers = "ovh" THEN adj.chimney_ovh ELSE bldg.chimney

doorOf(c) == IF c.detail = "all" THEN bldg.door ELSE <<>>

wallWindowsOf(c) == IF c.detail = "all" THEN bldg.wallWindows ELSE <<>>

embrasureOfCall(c) == IF c.emb THEN bldg.embrasure ELSE None

Emitting(ctor) == pc = "emit" /\ k <= Len(Calls) /\ Calls[k].ctor = ctor

EmitLOD1Solid ==
    /\ Emitting("LOD1Solid")
    /\ LET c == Calls[k]
           f == footprintOf(c)
       IN  out' = CityGMLbuildingLOD1Solid(f.o, f.x, f.y, bldg.zsize, bldg.h,
                      bldg.roofType, c.top, overrideOf(c), c.LOD, adj.aux,
                      bldg.buildingpart, c.fp = "Fd")
    /\ k' = k + 1
    /\ Stored
    /\ UNCHANGED <<buildings, buildingcounter, ROTATIONENABLED, bldg, pc, measured, adj, winXML>>

EmitLOD2Solid ==
    /\ Emitting("LOD2Solid")
    /\ LET c == Calls[k]
           f == footprintOf(c)
       IN  out' = CityGMLbuildingLOD2Solid(f.o, f.x, f.y, f.z, f.h, bldg.roofType,
                      f.r, ovhOf(c), c.rep, c.LOD, adj.aux, bldg.buildingpart,
                      c.fp = "Fd")
    /\ k' = k + 1
    /\ Stored
    /\ UNCHANGED <<buildings, buildingcounter, ROTATIONENABLED, bldg, pc, measured, adj, winXML>>

EmitLOD2Semantics ==
    /\ Emitting("LOD2Semantics")
    /\ LET c == Calls[k]
           f == footprintOf(c)
       IN  out' = CityGMLbuildingLOD2Semantics(f.o, f.x, f.y, f.z, f.h,
                      bldg.roofType, f.r, ovhOf(c), c.LOD, adj.aux,
                      bldg.buildingpart, c.fp = "Fd")
    /\ k' = k + 1
    /\ Stored
    /\ UNCHANGED <<buildings, buildingcounter, ROTATIONENABLED, bldg, pc, measured, adj, winXML>>

EmitLOD3Semantics ==
    /\ Emitting("LOD3Semantics")
    /\ LET c == Calls[k]
           f == footprintOf(c)
       IN  out' = CityGMLbuildingLOD3Semantics(f.o, f.x, f.y, f.z, f.h,
                      bldg.roofType, ovhOf(c), f.r, doorOf(c), wallWindowsOf(c),
                      dormersOf(c), roofWindowsOf(c), chimneyOf(c),
                      embrasureOfCall(c), 1, adj.aux, bldg.buildingpart,
                      c.aerial).out
    /\ k' = k + 1
    /\ Stored
    /\ UNCHANGED <<buildings, buildingcounter, ROTATIONENABLED, bldg, pc, measured, adj, winXML>>

EmitLOD3Solid ==
    /\ Emitting("LOD3Solid")
    /\ LET c == Calls[k]
           f == footprintOf(c)
       IN  out' = CityGMLbuildingLOD3Solid(f.o, f.x, f.y, f.z, f.h, bldg.roofType,
                      ovhOf(c), f.r, doorOf(c), wallWindowsOf(c), dormersOf(c),
                      roofWindowsOf(c), chimneyOf(c), embrasureOfCall(c), 1,
                      c.rep, adj.aux, bldg.buildingpart, c.aerial)
    /\ k' = k + 1
    /\ Stored
    /\ UNCHANGED <<buildings, buildingcounter, ROTATIONENABLED, bldg, pc, measured, adj, winXML>>

EmitInteriorLOD0 ==
    /\ Emitting("InteriorLOD0")
    /\ out' = CityGMLbuildingInteriorLOD0(bldg.origin, bldg.xsize, bldg.ysize,
                  bldg.zsize, bldg.h, bldg.floors, bldg.floorHeight,
                  bldg.roofType, bldg.r, bldg.wallThickness, bldg.joist, adj.aux,
                  bldg.buildingpart)
    /\ k' = k + 1
    /\ Stored
    /\ UNCHANGED <<buildings, buildingcounter, ROTATIONENABLED, bldg, pc, measured, adj, winXML>>

EmitInteriorLOD1 ==
    /\ Emitting("InteriorLOD1")
    /\ out' = CityGMLbuildingInteriorLOD1(bldg.origin, bldg.xsize, bldg.ysize,
                  bldg.zsize, bldg.h, bldg.floors, bldg.floorHeight,
                  bldg.roofType, bldg.r, bldg.wallThickness, bldg.joist, adj.aux,
                  bldg.buildingpart)
    /\ k' = k + 1
    /\ Stored
    /\ UNCHANGED <<buildings, buildingcounter, ROTATIONENABLED, bldg, pc, measured, adj, winXML>>

EmitInteriorLOD2 ==
    /\ Emitting("InteriorLOD2")
    /\ IF raised("InteriorLOD2", bldg, None, <<>>, <<>>, dormersOf(Calls[k]), <<>>) = ""
         THEN /\ out' = CityGMLbuildingInteriorLOD2(bldg.origin, bldg.xsize,
                            bldg.ysize, bldg.zsize, bldg.h, bldg.floors,
                            bldg.floorHeight, bldg.roofType, bldg.r,
                            bldg.wallThickness, bldg.joist, adj.aux,
                            bldg.buildingpart, dormersOf(Calls[k]))
              /\ k' = k + 1
              /\ Stored
              /\ pc' = pc
         \* an exception is not caught: the run ends
         ELSE /\ pc' = "error"
              /\ UNCHANGED <<out, k, CityGMLs>>
    /\ UNCHANGED <<buildings, buildingcounter, ROTATIONENABLED, bldg, measured, adj, winXML>>

\* all models of the building are generated: the coordinates of its
\* cityObjectMembers are rotated in every document
Rotate ==
    /\ pc = "emit"
    /\ k > Len(Calls)
    /\ CityGMLs' =
          IF ROTATIONENABLED
          THEN [representation \in DOMAIN CityGMLs |->
                    rotatedEntities(CityGMLs[representation], ID,
                                    sine_rotation(angle_of_rotation),
                                    cosine_rotation(angle_of_rotation),
                                    bldg.origin)]
          ELSE CityGMLs
    /\ pc' = "rotated"
    /\ UNCHANGED <<buildings, buildingcounter, ROTATIONENABLED, bldg, measured, adj, k, out, winXML>>

\* the loop goes to the next building
NextBuilding ==
    /\ pc = "rotated"
    /\ bldg' = <<>>
    /\ pc' = "read"
    /\ measured' = <<>>
    /\ adj' = <<>>
    /\ k' = 0
    /\ out' = <<>>
    /\ UNCHANGED <<buildings, buildingcounter, ROTATIONENABLED, CityGMLs, winXML>>

Next ==
    \/ ReadBuilding
    \/ Measure
    \/ Adjust
    \/ EmitLOD1Solid
    \/ EmitLOD2Solid
    \/ EmitLOD2Semantics
    \/ EmitLOD3Semantics
    \/ EmitLOD3Solid
    \/ EmitInteriorLOD0
    \/ EmitInteriorLOD1
    \/ EmitInteriorLOD2
    \/ Rotate
    \/ NextBuilding

Spec == Init /\ [][Next]_vars
(***************************************************************************)
(* Properties                                                              *)
(***************************************************************************)
\* the model generated last
lastCall == Calls[k - 1]

Emitted == pc = "emit" /\ k > 1

\* the model generated last is a solid
EmittedSolid ==
    Emitted /\ lastCall.rep = "solid"
            /\ lastCall.ctor \in {"LOD1Solid", "LOD2Solid", "LOD3Solid"}

RingsOf(poly) == <<poly.ext>> \o poly.int

\* the directed edges of a ring, of a polygon and of a shell
RingEdges(ring) ==
    LET pts == GMLstring2points(ring)
    IN  {<<pts[i], pts[i + 1]>> : i \in 1..(Len(pts) - 1)}

PolyEdges(poly) ==
    UNION {RingEdges(RingsOf(poly)[j]) : j \in 1..Len(RingsOf(poly))}

ShellEdges(polys) == UNION {PolyEdges(polys[i]) : i \in 1..Len(polys)}

\* one entry per directed edge written, wherever it is written
EdgeSlots(polys) ==
    UNION {UNION {{<<i, j, e>> : e \in 1..((Len(RingsOf(polys[i])[j]) \div 3) - 1)} :
                    j \in 1..Len(RingsOf(polys[i]))} : i \in 1..Len(polys)}

\* every directed edge is written once, and its opposite is written (once)
\* by another surface
Closed(polys) ==
    LET all == ShellEdges(polys)
    IN  /\ Cardinality(all) = Cardinality(EdgeSlots(polys))
        /\ \A e \in all : <<e[2], e[1]>> \in all
        /\ \A i \in 1..Len(polys) :
              LET own == PolyEdges(polys[i])
              IN  \A e \in own : <<e[2], e[1]>> \notin own

\* C1: every solid generated by the LOD1, LOD2 and LOD3 solid constructors,
\* for every roof type, with or without an uncovered building part,
\* embrasures and dormers, is closed: each directed edge of the shell is
\* matched by exactly one opposite edge of another surface of the shell
SolidClosure == EmittedSolid => Closed(out)

\* an LOD2 solid of a building with an uncovered part has been generated
SolidWithPart ==
    /\ EmittedSolid
    /\ lastCall.ctor = "LOD2Solid"
    /\ bldg.buildingpart # <<>>
    /\ ~Closed(out)

\* a ring repeats its first point as its last
RingClosed(ring) ==
    /\ Len(ring) >= 12
    /\ Len(ring) % 3 = 0
    /\ SubSeq(ring, 1, 3) = SubSeq(ring, Len(ring) - 2, Len(ring))

AllRings(polys) == UNION {{RingsOf(polys[i])[j] : j \in 1..Len(RingsOf(polys[i]))} :
                            i \in 1..Len(polys)}

\* C2: the first point of every ring of every generated model, exterior or
\* interior, is repeated exactly as its last point
RingClosure ==
    Emitted => \A ring \in AllRings(out) : RingClosed(ring)

\* a model with holes in its walls, embrasures, a dormer with its cutout in
\* the roof, a chimney and overhangs has been generated
RingsOfDetailedModel ==
    /\ Emitted
    /\ lastCall.name = "LOD3_3"
    /\ bldg.embrasure # Zero
    /\ bldg.ovh[1] # Zero
    /\ \E i \in 1..Len(out) : out[i].kind = "dormer"
    /\ \E i \in 1..Len(out) : out[i].kind = "chimney"
    /\ \E i \in 1..Len(out) : out[i].kind = "overhang"
    /\ \E i \in 1..Len(out) : out[i].sem = "RoofSurface" /\ out[i].int # <<>>
    /\ \E i \in 1..Len(out) : out[i].sem = "WallSurface" /\ out[i].int # <<>>
    /\ \A ring \in AllRings(out) : RingClosed(ring)

RECURSIVE SumOver(_, _, _)
SumOver(term(_), from, to) ==
    IF from > to THEN Zero ELSE Plus(term(from), SumOver(term, from + 1, to))

\* the normal of a ring, whose direction tells its circulation sense: the sum
\* of the cross products of consecutive vertices taken relative to the first
RingNormal(ring) ==
    LET pts == GMLstring2points(ring)
        n == Len(pts) - 1
        rel(i, a) == Minus(pts[i][a], pts[1][a])
        c(a, b) == SumOver(LAMBDA i : Minus(Times(rel(i, a), rel(i + 1, b)),
                                            Times(rel(i, b), rel(i + 1, a))), 2, n - 1)
    IN  <<c(2, 3), c(3, 1), c(1, 2)>>

Sign(q) == IF q[1] > 0 THEN 1 ELSE IF q[1] < 0 THEN -1 ELSE 0

\* two rings of one plane run in opposite senses: their normals are not null
\* and point in opposite directions along every axis
OppositeSense(a, b) ==
    LET u == RingNormal(a)
        v == RingNormal(b)
    IN  /\ \E j \in 1..3 : Sign(u[j]) # 0
        /\ \A j \in 1..3 : Sign(v[j]) = -Sign(u[j])

HolesReversed(poly) ==
    \A j \in 1..Len(poly.int) : OppositeSense(poly.ext, poly.int[j])

\* C3: every interior ring attached to a surface runs in the sense opposite
\* to that of the exterior ring of the surface it punctures
HolesOpposite ==
    Emitted => \A i \in 1..Len(out) : HolesReversed(out[i])

\* the same for the surfaces of the building proper and of its overhangs:
\* walls with door and window holes, roof faces with cutouts, and the
\* overhang of a Shed or Flat roof
HolesOppositeOffDormers ==
    Emitted => \A i \in 1..Len(out) : out[i].kind # "dormer" => HolesReversed(out[i])

\* a dormer whose front has a window set back by an embrasure is generated
\* with its semantics, and the hole in its front runs as the front does
DormerFrontHole ==
    /\ Emitted
    /\ lastCall.name = "LOD3_3"
    /\ \E i \in 1..Len(out) :
          /\ out[i].kind = "dormer"
          /\ out[i].sem = "WallSurface"
          /\ out[i].int # <<>>
          /\ ~HolesReversed(out[i])

\* the first pass over the building has returned; the footprints are derived
Measured == pc \in {"adjust", "emit"}

Adjusted == pc = "emit"

\* the coordinates along one axis of all points of some polygons
CoordsOf(polys, axis) ==
    UNION {{GMLstring2points(ring)[i][axis] :
               i \in 1..Len(GMLstring2points(ring))} : ring \in AllRings(polys)}

Lowest(S) == CHOOSE m \in S : \A q \in S : Leq(m, q)

Highest(S) == CHOOSE m \in S : \A q \in S : Leq(q, m)

Overhangs_out == SelectSeq(out, LAMBDA q : q.kind = "overhang")

\* the drop of the eave found by the first pass
eaveDrop == Minus(Plus(bldg.origin[3], bldg.zsize), measured.eaves)

\* C4: for a Gabled roof with an overhang ovhx > 0 the eave drop ovhz is to
\* the rise h as ovhx is to half the width, the corrected eave returned lies
\* ovhz below the original eave, the overhangs generated end at that eave,
\* and width 6, h = 2, ovhx = 0.5 give ovhz = 2 * 0.5 / 3
ProportionalOverhang ==
    (Measured /\ bldg.roofType = "Gabled" /\ Less(Zero, bldg.ovh[1])) =>
        LET w2 == Times(Half, bldg.xsize)
        IN  /\ Div(eaveDrop, bldg.h) = Div(bldg.ovh[1], w2)
            /\ eaveDrop = Div(Times(bldg.h, bldg.ovh[1]), w2)
            /\ (bldg.xsize = Int2R(6) /\ bldg.h = Int2R(2) /\ bldg.ovh[1] = Half)
                 => eaveDrop = Div(Times(Int2R(2), Half), Int2R(3))
            /\ (Emitted /\ lastCall.name = "LOD3_2")
                 => Lowest(CoordsOf(Overhangs_out, 3)) = measured.eaves

\* the gabled roof of width 6 and rise 2 with an overhang of 0.5 has been
\* generated with its overhangs
GabledScenario ==
    /\ Emitted
    /\ lastCall.name = "LOD3_2"
    /\ bldg.roofType = "Gabled"
    /\ bldg.xsize = Int2R(6) /\ bldg.h = Int2R(2) /\ bldg.ovh = <<Half, <<3, 10>>>>
    /\ eaveDrop = <<1, 3>>
    /\ Overhangs_out # <<>>

\* C5: for Hipped and Pyramidal roofs the y-overhang returned is the
\* x-overhang times the ridge inset over half the width, whatever the y-overhang
\* of the input, so that the eave drops by the same ovhz along x and along y
\* and the overhangs generated reach that far in y
DerivedOverhangY ==
    (Measured /\ bldg.roofType \in {"Hipped", "Pyramidal"}) =>
        LET w2 == Times(Half, bldg.xsize)
            oy == measured.ovhy_recalculated
        IN  /\ oy = Div(Times(bldg.ovh[1], bldg.r), w2)
            /\ Times(eaveDrop, w2) = Times(bldg.h, bldg.ovh[1])
            /\ Times(eaveDrop, bldg.r) = Times(bldg.h, oy)
            /\ (Emitted /\ lastCall.name = "LOD3_2" /\ Overhangs_out # <<>>)
                 => /\ Lowest(CoordsOf(Overhangs_out, 2)) = Minus(bldg.origin[2], oy)
                    /\ Highest(CoordsOf(Overhangs_out, 2))
                         = Plus(Plus(bldg.origin[2], bldg.ysize), oy)

\* a hipped or pyramidal roof whose input gives a y-overhang other than the
\* derived one has been generated with its overhangs
HippedOverhangRederived ==
    /\ Emitted
    /\ lastCall.name = "LOD3_2"
    /\ bldg.roofType \in {"Hipped", "Pyramidal"}
    /\ Less(Zero, bldg.ovh[1])
    /\ measured.ovhy_recalculated # bldg.ovh[2]
    /\ Overhangs_out # <<>>

\* the origin of every feature on a side along which the y-overhang counts
\* is moved by oy
FeaturesMovedBy(feats, moved, oy) ==
    \A i \in 1..Len(feats) :
        (bldg.roofType = "Flat" \/ feats[i].side \in {1, 3})
            => moved[i].origin[1] = Plus(feats[i].origin[1], oy)

\* C6: the projected and the offset footprint, the adjusted ridge inset and
\* the adjusted origins of dormers, roof windows and chimneys are all derived
\* from the y-overhang returned by the first pass, not from that of the input
RecalculatedOverhangUsed ==
    Adjusted =>
        LET oy == measured.ovhy_recalculated
            od == Minus(oy, offset)
        IN  /\ adj.F1.o[2] = Minus(bldg.origin[2], oy)
            /\ adj.F1.y = Plus(bldg.ysize, Times(Two, oy))
            /\ adj.Fd.o[2] = Minus(bldg.origin[2], od)
            /\ adj.Fd.y = Plus(bldg.ysize, Times(Two, od))
            /\ adj.aux.ovhy = oy
            /\ bldg.r # None => /\ adj.F1.r = Plus(bldg.r, oy)
                                /\ adj.Fd.r = IF Less(Zero, bldg.r)
                                                THEN Plus(bldg.r, od) ELSE Zero
            /\ FeaturesMovedBy(bldg.dormers, adj.dormers_ovh, oy)
            /\ FeaturesMovedBy(bldg.dormers, adj.dormers_offset, od)
            /\ FeaturesMovedBy(bldg.roofWindows, adj.roofWindows_ovh, oy)
            /\ FeaturesMovedBy(bldg.roofWindows, adj.roofWindows_offset, od)
            /\ FeaturesMovedBy(bldg.chimney, adj.chimney_ovh, oy)
            /\ FeaturesMovedBy(bldg.chimney, adj.chimney_offset, od)

\* the footprints and features of a hipped roof with dormers and a chimney
\* are derived where the input y-overhang is not the one returned
HippedFeaturesAdjusted ==
    /\ Adjusted
    /\ bldg.roofType = "Hipped"
    /\ measured.ovhy_recalculated # bldg.ovh[2]
    /\ \E i \in 1..Len(bldg.dormers) : bldg.dormers[i].side = 1
    /\ adj.F1.y = Plus(bldg.ysize, Times(Two, measured.ovhy_recalculated))

\* the roof faces and the overhangs of the model generated last, which
\* carries semantics and has a pitched roof
RoofFaces == SelectSeq(out, LAMBDA q : q.sem = "RoofSurface" /\ q.kind = "")

RoofAndOverhangs ==
    SelectSeq(out, LAMBDA q : q.sem = "RoofSurface" /\ q.kind \in {"", "overhang"})

PitchedWithSemantics ==
    /\ Emitted
    /\ lastCall.ctor \in {"LOD2Semantics", "LOD3Semantics"}
    /\ bldg.roofType # "Flat"

RidgeOfInput == Plus(Plus(bldg.origin[3], bldg.zsize), bldg.h)

RidgeOf(polys) ==
    IF Less(footprintOf(lastCall).h, Zero) THEN Lowest(CoordsOf(polys, 3))
    ELSE Highest(CoordsOf(polys, 3))

lastFootprint == footprintOf(lastCall)

lastBody ==
    IF lastCall.ctor = "LOD1Solid"
      THEN verticesBody(lastFootprint.o, lastFootprint.x, lastFootprint.y,
                        bldg.zsize, bldg.h, lastCall.top, overrideOf(lastCall))
      ELSE verticesBody(lastFootprint.o, lastFootprint.x, lastFootprint.y,
                        lastFootprint.z, None, None, None)

lastBodyList ==
    verticesBodyList(lastFootprint.o, lastFootprint.x, lastFootprint.y,
                     lastFootprint.z, None, None)

lastHeight ==
    LET rise == IF bldg.h = None THEN Zero ELSE bldg.h
    IN  IF lastCall.ctor # "LOD1Solid" THEN lastFootprint.z
        ELSE IF lastCall.top = Zero THEN bldg.zsize
        ELSE IF lastCall.top # None
               THEN Plus(bldg.zsize, Times(lastCall.top, rise))
        ELSE IF lastCall.ref = "none" THEN Plus(bldg.zsize, rise)
        ELSE overrideOf(lastCall)

Vec(a, b) == <<Minus(b[1], a[1]), Minus(b[2], a[2]), Minus(b[3], a[3])>>

BoxEdges == {<<0, 1>>, <<1, 2>>, <<2, 3>>, <<3, 0>>, <<4, 5>>, <<5, 6>>,
             <<6, 7>>, <<7, 4>>, <<0, 4>>, <<1, 5>>, <<2, 6>>, <<3, 7>>}

BoxConsistent(p, width, depth, height) ==
    /\ Vec(p[0], p[1]) = <<width, Zero, Zero>>
    /\ Vec(p[0], p[3]) = <<Zero, depth, Zero>>
    /\ Vec(p[0], p[4]) = <<Zero, Zero, height>>
    /\ Vec(p[0], p[2]) = <<width, depth, Zero>>
    /\ \A i \in 0..3 : Vec(p[i], p[4 + i]) = <<Zero, Zero, height>>
    /\ (Less(Zero, width) /\ Less(Zero, depth) /\ Less(Zero, height))
         => \A e \in BoxEdges : p[e[1]] # p[e[2]]

\* C8: the eight corners the Body Constructor returns span an axis-aligned
\* box: p1 - p0 = (width, 0, 0), p3 - p0 = (0, depth, 0), p4 - p0 =
\* (0, 0, height), p2 = p0 + (width, depth, 0), the upper ring lies height
\* above the lower one, and no edge is degenerate when all three are positive
BoxConsistency ==
    Emitted =>
        /\ BoxConsistent(lastBody, lastFootprint.x, lastFootprint.y, lastHeight)
        /\ BoxConsistent(lastBodyList, lastFootprint.x, lastFootprint.y,
                         lastFootprint.z)

\* a block whose height is the eave height raised by the whole rise has been
\* generated on the projected footprint of a pitched roof with overhangs
BlockRaisedByRise ==
    /\ Emitted
    /\ lastCall.name = "LOD1_1_F1_H5_solid"
    /\ bldg.h # None
    /\ Less(Zero, bldg.ovh[1])
    /\ lastHeight = Plus(bldg.zsize, bldg.h)
    /\ Vec(lastBody[0], lastBody[6])
         = <<lastFootprint.x, lastFootprint.y, lastHeight>>

Dot(u, v) == Plus(Plus(Times(u[1], v[1]), Times(u[2], v[2])), Times(u[3], v[3]))

\* v lies in the plane of a ring
InPlaneOf(ring, v) ==
    LET n == RingNormal(ring)
        p0 == GMLstring2points(ring)[1]
    IN  Dot(n, Vec(p0, v)) = Zero

HolesInPlane(poly) ==
    \A j \in 1..Len(poly.int) :
        \A i \in 1..Len(GMLstring2points(poly.int[j])) :
            InPlaneOf(poly.ext, GMLstring2points(poly.int[j])[i])

\* the foot of a roof feature: the ring its cutout in the roof runs along
FeetOf(polys) ==
    UNION {{polys[i].int[j] : j \in 1..Len(polys[i].int)} : i \in 1..Len(polys)}

\* the horizontal distance of v from the eave of a side of the body p
FromEave(p, side, v) ==
    CASE side = 1 -> Minus(p[1][1], v[1])
      [] side = 3 -> Minus(v[1], p[0][1])
      [] side = 0 -> Minus(v[2], p[0][2])
      [] side = 2 -> Minus(p[2][2], v[2])

\* the rise over run of the roof face of a side: the rise is h over half
\* the width (the whole width of a Shed roof), and over the ridge inset on
\* the two hip ends
OnSlope(side, v) ==
    LET f == lastFootprint
        run == IF bldg.roofType = "Shed" THEN f.x
               ELSE IF side \in {0, 2} THEN f.r ELSE Times(Half, f.x)
        eave == Plus(f.o[3], f.z)
    IN  Times(Minus(v[3], eave), run) = Times(FromEave(lastBodyList, side, v), f.h)

FeetOnSlope(feats, verts) ==
    \A i \in 1..Len(feats) : \A j \in 0..3 : OnSlope(feats[i].side, verts[i].d[j])

lastDormers ==
    dormerVertices(dormersOf(lastCall), lastBodyList, lastFootprint.h,
                   bldg.roofType, lastFootprint.x, lastFootprint.r)

lastRoofWindows ==
    dormerVertices(roofWindowsOf(lastCall), lastBodyList, lastFootprint.h,
                   bldg.roofType, lastFootprint.x, lastFootprint.r)

lastChimneys ==
    chimneyVertices(chimneyOf(lastCall), lastBodyList, lastFootprint.h,
                    bldg.roofType, lastFootprint.x, lastFootprint.r)

DetailedPitched ==
    /\ Emitted
    /\ lastCall.ctor = "LOD3Semantics"
    /\ bldg.roofType # "Flat"

\* C9: on every pitched roof the foot of each dormer, roof window and
\* chimney lies in the plane of the roof face it is cut into: the elevation
\* of each of its vertices is the eave elevation plus its horizontal distance
\* from the eave times the rise over run of that face
FeatureBaseOnRoof ==
    DetailedPitched =>
        /\ \A i \in 1..Len(RoofFaces) : HolesInPlane(RoofFaces[i])
        /\ FeetOnSlope(dormersOf(lastCall), lastDormers)
        /\ FeetOnSlope(roofWindowsOf(lastCall), lastRoofWindows)
        /\ FeetOnSlope(chimneyOf(lastCall), lastChimneys)
        /\ \A i \in 1..Len(lastDormers) :
               cutoutRing(lastDormers[i].dGML) \in FeetOf(RoofFaces)
        /\ \A i \in 1..Len(lastChimneys) :
               cutoutRing(lastChimneys[i].dGML) \in FeetOf(RoofFaces)

\* a hipped roof has been generated with a dormer on a hip end and a chimney,
\* both cut into its roof faces
HipEndDormer ==
    /\ DetailedPitched
    /\ bldg.roofType = "Hipped"
    /\ \E i \in 1..Len(dormersOf(lastCall)) :
          /\ dormersOf(lastCall)[i].side \in {0, 2}
          /\ cutoutRing(lastDormers[i].dGML) \in FeetOf(RoofFaces)
    /\ lastChimneys # <<>>
    /\ \A i \in 1..Len(RoofFaces) : HolesInPlane(RoofFaces[i])

\* the eave edge of a roof side, as indices of the body corners: as the
\* specification numbers the sides, and as the generated models have them
EaveEdgeNorthFirst(side) ==
    CASE side = 0 -> <<6, 7>> [] side = 1 -> <<5, 6>>
      [] side = 2 -> <<4, 5>> [] side = 3 -> <<7, 4>>

EaveEdgeSouthFirst(side) ==
    CASE side = 0 -> <<4, 5>> [] side = 1 -> <<5, 6>>
      [] side = 2 -> <<6, 7>> [] side = 3 -> <<7, 4>>

PointsOf(ring) == {GMLstring2points(ring)[i] : i \in 1..Len(GMLstring2points(ring))}

\* the roof faces of the model generated last that run along an eave edge
FacesAlong(e) ==
    {i \in 1..Len(RoofFaces) :
        {lastBody[e[1]], lastBody[e[2]]} \subseteq PointsOf(RoofFaces[i].ext)}

\* the features given with a side are cut into, and stand in the plane of,
\* the roof face along the eave edge of that side
OnFaceOfSide(feats, verts, edge(_)) ==
    \A n \in 1..Len(feats) :
        LET faces == FacesAlong(edge(feats[n].side))
        IN  /\ faces # {}
            /\ \A i \in faces :
                  /\ cutoutRing(verts[n].dGML) \in FeetOf(<<RoofFaces[i]>>)
                  /\ \A j \in 0..3 : InPlaneOf(RoofFaces[i].ext, verts[n].d[j])

SidePlacement(edge(_)) ==
    /\ OnFaceOfSide(dormersOf(lastCall), lastDormers, edge)
    /\ dormersOf(lastCall) = <<>>
         => OnFaceOfSide(roofWindowsOf(lastCall), lastRoofWindows, edge)
    /\ OnFaceOfSide(chimneyOf(lastCall), lastChimneys, edge)

\* the statement of C10 as given: side 0 is the north side (edge p6-p7),
\* side 1 the east (p5-p6), side 2 the south (p4-p5), side 3 the west (p7-p4)
SidesNorthFirst == DetailedPitched => SidePlacement(EaveEdgeNorthFirst)

\* C10: roof sides are numbered 0 = south (edge p4-p5), 1 = east (p5-p6),
\* 2 = north (p6-p7), 3 = west (p7-p4): a feature given with a side is placed
\* on, and its cutout attached to, the roof face along that eave edge
SidesSouthFirst == DetailedPitched => SidePlacement(EaveEdgeSouthFirst)

\* a hipped or pyramidal roof has been generated with a dormer given with
\* side 0 or 2, which is cut into the face along the south or the north eave
DormerOnHipEndFace ==
    /\ DetailedPitched
    /\ bldg.roofType \in {"Hipped", "Pyramidal"}
    /\ \E n \in 1..Len(dormersOf(lastCall)) :
          LET side == dormersOf(lastCall)[n].side
          IN  /\ side \in {0, 2}
              /\ \E i \in FacesAlong(EaveEdgeSouthFirst(side)) :
                    cutoutRing(lastDormers[n].dGML) \in FeetOf(<<RoofFaces[i]>>)

\* the footprint ring of a feature: its four feet in order, closed
FootprintRing(v) == v.dGML[0] \o v.dGML[1] \o v.dGML[2] \o v.dGML[3] \o v.dGML[0]

\* the roof faces that carry a ring as a hole, one entry for each time
HostsOf(ring) ==
    {<<i, j>> \in (1..Len(RoofFaces)) \X (1..4) :
        j <= Len(RoofFaces[i].int) /\ RoofFaces[i].int[j] = ring}

CutoutOnOwnFace(feats, verts) ==
    \A n \in 1..Len(feats) :
        LET ring == GMLreversedRing(FootprintRing(verts[n]))
        IN  /\ RingClosed(ring)
            /\ Cardinality(HostsOf(ring)) = 1
            /\ \A hst \in HostsOf(ring) :
                  hst[1] \in FacesAlong(EaveEdgeSouthFirst(feats[n].side))

DetailedModel == Emitted /\ lastCall.ctor = "LOD3Semantics"

\* C11: for every placed dormer, roof window and chimney the roof cutout is
\* the footprint ring of the feature reversed and closed, and it is a hole of
\* the roof surface of the side the feature is placed on, and of no other
CutoutReversedFootprint ==
    DetailedModel =>
        /\ CutoutOnOwnFace(dormersOf(lastCall), lastDormers)
        /\ dormersOf(lastCall) = <<>>
             => CutoutOnOwnFace(roofWindowsOf(lastCall), lastRoofWindows)
        /\ CutoutOnOwnFace(chimneyOf(lastCall), lastChimneys)

\* a gabled roof has been generated with a dormer on each of its two faces,
\* each face carrying the cutout of its own dormer
GabledDormersBothSides ==
    /\ DetailedModel
    /\ bldg.roofType = "Gabled"
    /\ {dormersOf(lastCall)[n].side : n \in 1..Len(dormersOf(lastCall))} = {1, 3}
    /\ \A n \in 1..Len(lastDormers) :
          Cardinality(HostsOf(cutoutRing(lastDormers[n].dGML))) = 1

Between(a, v, b) == (Leq(a, v) /\ Leq(v, b)) \/ (Leq(b, v) /\ Leq(v, a))

\* v lies in the plane of a wall of the body p and inside its bounding box
OnWall(p, wall, v) ==
    LET a == p[wall]
        b == p[(wall + 1) % 4]
    IN  /\ IF wall \in {0, 2} THEN v[2] = a[2] /\ b[2] = a[2]
           ELSE v[1] = a[1] /\ b[1] = a[1]
        /\ Between(a[1], v[1], b[1])
        /\ Between(a[2], v[2], b[2])
        /\ Between(a[3], v[3], p[wall + 4][3])

\* the opening respects the bounds of its wall on a body of width x, depth y
\* and eave height z
WithinWall(op, x, y, z) ==
    LET len == IF op.wall \in {0, 2} THEN x ELSE y
    IN  /\ Leq(Zero, op.origin[1])
        /\ Leq(Plus(op.origin[1], op.size[1]), len)
        /\ Leq(Zero, op.origin[2])
        /\ Leq(Plus(op.origin[2], op.size[2]), z)

RingOnWall(op, p) ==
    \A v \in PointsOf(openingRing(op, p)) : OnWall(p, op.wall, v)

\* the openings tried on every wall of the body generated last: at the
\* corner of the wall, inside it, and reaching its far end and its eave
TrialOpenings ==
    LET f == lastFootprint
    IN  {Opening(w, X, Y, wd, hh) :
            w \in 0..3, X \in {Zero, Half, Int2R(2)}, Y \in {Zero, Int2R(1)},
            wd \in {Int2R(1), f.x, f.y, Minus(f.x, Half), Minus(f.y, Half),
                    Minus(f.x, Int2R(2)), Minus(f.y, Int2R(2))},
            hh \in {Int2R(1), f.z, Minus(f.z, Int2R(1))}}

WallHoles ==
    FeetOf(SelectSeq(out, LAMBDA q : q.sem = "WallSurface" /\ q.kind = ""))

lastOpenings == doorOf(lastCall) \o wallWindowsOf(lastCall)

\* C12: a door or window with origin (X, Y) and size (w, h) that respects the
\* bounds of its wall (0 <= X, X + w <= the length of the wall, 0 <= Y,
\* Y + h <= the eave height) has every vertex of its ring in the plane of
\* that wall and inside the bounding box of that wall
OpeningContainment ==
    DetailedModel =>
        /\ \A n \in 1..Len(lastOpenings) :
              WithinWall(lastOpenings[n], lastFootprint.x, lastFootprint.y,
                         lastFootprint.z)
                => /\ RingOnWall(lastOpenings[n], lastBodyList)
                   /\ openingRing(lastOpenings[n], lastBodyList) \in WallHoles
        /\ lastCall.detail = "all" =>
              \A op \in TrialOpenings :
                 WithinWall(op, lastFootprint.x, lastFootprint.y, lastFootprint.z)
                   => RingOnWall(op, lastBodyList)

\* a model has been generated with a door on the north wall and a window on
\* the west wall, both within their walls and cut into them
OpeningsOnFarWalls ==
    /\ DetailedModel
    /\ \E n \in 1..Len(lastOpenings) :
          /\ lastOpenings[n].wall = 2
          /\ WithinWall(lastOpenings[n], lastFootprint.x, lastFootprint.y,
                        lastFootprint.z)
          /\ openingRing(lastOpenings[n], lastBodyList) \in WallHoles
    /\ \E n \in 1..Len(lastOpenings) :
          /\ lastOpenings[n].wall = 3
          /\ openingRing(lastOpenings[n], lastBodyList) \in WallHoles
    /\ \E op \in TrialOpenings :
          /\ op.wall = 1
          /\ Plus(op.origin[1], op.size[1]) = lastFootprint.y
          /\ Plus(op.origin[2], op.size[2]) = lastFootprint.z

\* a point moved by e along the normal of a wall towards the interior: wall 0
\* is the south wall, 1 the east, 2 the north and 3 the west wall
MovedInward(pt, wall, e) ==
    CASE wall = 0 -> <<pt[1], Plus(pt[2], e), pt[3]>>
      [] wall = 1 -> <<Minus(pt[1], e), pt[2], pt[3]>>
      [] wall = 2 -> <<pt[1], Minus(pt[2], e), pt[3]>>
      [] wall = 3 -> <<Plus(pt[1], e), pt[2], pt[3]>>

\* the edges of a ring, without direction
SidesOfRing(ring) ==
    LET pts == GMLstring2points(ring)
    IN  {{pts[i], pts[i + 1]} : i \in 1..(Len(pts) - 1)}

\* a closed ring around four corners
Quadrilateral(ring) ==
    /\ RingClosed(ring)
    /\ Len(ring) = 15
    /\ Cardinality(PointsOf(ring)) = 4

ExteriorsOf(polys) == {polys[i].ext : i \in 1..Len(polys)}

\* the embrasure of one opening: four reveals, one on each edge of the ring of
\* the opening in the plane of the wall, and the inset ring, all generated
RevealsOfOpening(op, type, e) ==
    LET emb == embrasureOf(op, type, lastBodyList, e)
        outer == openingRing(op, lastBodyList)
        in(pt) == MovedInward(pt, op.wall, e)
        inset == emb.openings[1]
    IN  /\ Len(emb.surfaces) = 4
        /\ Len(emb.openings) = 1
        /\ emb.type = type
        /\ Quadrilateral(outer)
        /\ Quadrilateral(inset)
        /\ PointsOf(inset) = {in(pt) : pt \in PointsOf(outer)}
        /\ SidesOfRing(inset) = {{in(pt) : pt \in sd} : sd \in SidesOfRing(outer)}
        /\ \A sd \in SidesOfRing(outer) :
              Cardinality({s \in 1..4 :
                  /\ Quadrilateral(emb.surfaces[s])
                  /\ PointsOf(emb.surfaces[s]) = sd \cup {in(pt) : pt \in sd}
                  /\ sd \in SidesOfRing(emb.surfaces[s])
                  /\ {in(pt) : pt \in sd} \in SidesOfRing(emb.surfaces[s])}) = 1
        /\ \A s \in 1..4 : emb.surfaces[s] \in ExteriorsOf(out)
        /\ inset \in ExteriorsOf(out)

\* a model generated with doors and windows set back into the walls
EmbrasureModel ==
    /\ Emitted
    /\ lastCall.detail = "all"
    /\ Truthy(embrasureOfCall(lastCall))

\* C13: for every door and window, on any wall, a positive embrasure yields
\* exactly four reveals, each joining one edge of the ring of the opening in
\* the plane of the wall to the matching edge of the inset ring, and the inset
\* ring itself, which is the ring of the opening moved by the embrasure along
\* the normal of the wall into the building
EmbrasureGeometry ==
    EmbrasureModel =>
        /\ Less(Zero, bldg.embrasure)
        /\ \A n \in 1..Len(lastOpenings) :
              RevealsOfOpening(lastOpenings[n],
                               IF n <= Len(doorOf(lastCall)) THEN "Door"
                               ELSE "Window",
                               bldg.embrasure)
        /\ \A w \in 0..3 :
              Len(embrasuresGeometry(<<doorOf(lastCall), wallWindowsOf(lastCall)>>,
                                     lastBodyList, bldg.embrasure)[w + 1])
                = Cardinality({n \in 1..Len(lastOpenings) : lastOpenings[n].wall = w})

\* a model with an embrasure whose openings are in the south, the north and
\* the west wall
RevealsOnThreeWalls ==
    /\ EmbrasureModel
    /\ {0, 2, 3} \subseteq {lastOpenings[n].wall : n \in 1..Len(lastOpenings)}

InPlaneOfWall(p, wall, v) ==
    IF wall \in {0, 2} THEN v[2] = p[wall][2] ELSE v[1] = p[wall][1]

\* the places <<face, hole>> of the model generated last where a ring is an
\* interior ring, in either sense
HolePlaces(ring) ==
    {pl \in UNION {{<<i, j>> : j \in 1..Len(out[i].int)} : i \in 1..Len(out)} :
        out[pl[1]].int[pl[2]] \in {ring, GMLreversedRing(ring)}}

\* a solid generated with the door and the windows of the building
SolidWithOpenings ==
    /\ Emitted
    /\ lastCall.ctor = "LOD3Solid"
    /\ lastCall.detail = "all"
    /\ lastOpenings # <<>>

RevealsIncluded(op, e) ==
    LET emb == embrasureOf(op, "", lastBodyList, e)
    IN  /\ \A s \in 1..Len(emb.surfaces) : emb.surfaces[s] \in ExteriorsOf(out)
        /\ \A s \in 1..Len(emb.openings) : emb.openings[s] \in ExteriorsOf(out)

\* the claim as stated: in a solid no face carries the ring of a door or a
\* window as a hole, whatever the embrasure, and with a positive embrasure
\* the reveals are faces of the shell all the same
SolidWallsUncut ==
    SolidWithOpenings =>
        \A n \in 1..Len(lastOpenings) :
            /\ HolePlaces(openingRing(lastOpenings[n], lastBodyList)) = {}
            /\ Truthy(embrasureOfCall(lastCall))
                 => RevealsIncluded(lastOpenings[n], bldg.embrasure)

\* C14: in a solid generated without an embrasure (none, or a depth of zero)
\* no face carries the ring of a door or a window as a hole and there are no
\* reveals; in a solid generated with a positive embrasure the ring of every
\* door and window is a hole of exactly one face, which lies in the plane of
\* the wall of the opening, and its four reveals and its inset ring are faces
\* of the shell
SolidWallsCutWithEmbrasure ==
    SolidWithOpenings =>
        \A n \in 1..Len(lastOpenings) :
            LET op == lastOpenings[n]
                places == HolePlaces(openingRing(op, lastBodyList))
            IN  IF Truthy(embrasureOfCall(lastCall))
                  THEN /\ Cardinality(places) = 1
                       /\ \A pl \in places :
                             \A v \in PointsOf(out[pl[1]].ext) :
                                 InPlaneOfWall(lastBody, op.wall, v)
                       /\ RevealsIncluded(op, bldg.embrasure)
                  ELSE /\ places = {}
                       /\ \A q \in ExteriorsOf(out) :
                             PointsOf(q) # PointsOf(openingRing(op, lastBodyList))

\* a solid generated with an embrasure for a building with a door and windows
\* in three of its walls
SolidWithRecessedOpenings ==
    /\ SolidWithOpenings
    /\ Truthy(embrasureOfCall(lastCall))
    /\ Cardinality({lastOpenings[n].wall : n \in 1..Len(lastOpenings)}) = 3

\* the WallSurface polygons of the model generated last that stand on the
\* foot of a wall of the body
WallSurfacesOf(wall) ==
    {i \in 1..Len(out) :
        /\ out[i].sem = "WallSurface"
        /\ out[i].cls = "member"
        /\ {lastBody[wall], lastBody[(wall + 1) % 4]} \subseteq PointsOf(out[i].ext)}

\* the Door and Window surfaces attached to a polygon
OpeningSurfacesOn(i) ==
    {q \in 1..Len(out) :
        /\ out[q].cls = "opening"
        /\ out[q].sem \in {"Door", "Window"}
        /\ out[q].host = out[i].ext}

\* the face of a door or window: its ring in the plane of the wall, or that
\* ring set back by the embrasure
OpeningFace(op) ==
    IF Truthy(embrasureOfCall(lastCall))
      THEN {MovedInward(v, op.wall, bldg.embrasure) :
                v \in PointsOf(openingRing(op, lastBodyList))}
      ELSE PointsOf(openingRing(op, lastBodyList))

\* a semantic model generated with the door and windows of the building
SemanticWithOpenings ==
    DetailedModel /\ lastCall.detail = "all" /\ lastOpenings # <<>>

\* every door and wall window of the building is one hole of the WallSurface
\* of its own wall and one Door or Window surface attached to it
HoleAndOpeningOnOwnWall ==
    SemanticWithOpenings =>
        \A w \in 0..3 :
            LET here == {n \in 1..Len(lastOpenings) : lastOpenings[n].wall = w}
            IN  /\ Cardinality(WallSurfacesOf(w)) = 1
                /\ \A i \in WallSurfacesOf(w) :
                      /\ Len(out[i].int) = Cardinality(here)
                      /\ Cardinality(OpeningSurfacesOn(i)) = Cardinality(here)
                      /\ \A n \in here :
                            LET op == lastOpenings[n]
                                ring == openingRing(op, lastBodyList)
                            IN  /\ Cardinality(HolePlaces(ring)) = 1
                                /\ \E j \in 1..Len(out[i].int) : out[i].int[j] = ring
                                /\ Cardinality({q \in OpeningSurfacesOn(i) :
                                       /\ PointsOf(out[q].ext) = OpeningFace(op)
                                       /\ out[q].sem = IF n <= Len(doorOf(lastCall))
                                                         THEN "Door" ELSE "Window"})
                                     = 1

\* a semantic model of a building with a door in one wall and windows in two
\* others, one wall being without openings
SemanticOpeningsOnThreeWalls ==
    /\ SemanticWithOpenings
    /\ Len(doorOf(lastCall)) = 1
    /\ Cardinality({lastOpenings[n].wall : n \in 1..Len(lastOpenings)}) = 3

\* the walls of the body generated last written for a door and two windows in
\* one wall and a window in the next wall
CrowdedWall(w) ==
    LET p == lastBody
        face(i) == GMLPointList(p[i + 4]) \o GMLPointList(p[i])
                   \o GMLPointList(p[(i + 1) % 4])
                   \o GMLPointList(p[((i + 1) % 4) + 4]) \o GMLPointList(p[i + 4])
        ops == openingsOf(<<Opening(w, Int2R(2), Zero, Int2R(1), Int2R(2))>>,
                          <<Opening(w, Zero, Int2R(1), Int2R(1), Int2R(1)),
                            Opening((w + 1) % 4, Int2R(1), Int2R(1), Int2R(1), Int2R(1)),
                            Opening(w, Int2R(4), Int2R(1), Int2R(1), Int2R(1))>>,
                          lastBodyList)
    IN  wallFaces(<<face(0), face(1), face(2), face(3)>>, TRUE, ops,
                  embrasureOfCall(lastCall), lastBodyList)

\* the wall with the door and two windows has three holes and one Door and
\* two Window surfaces attached, the next wall one hole and one Window, the
\* other walls none
CrowdedWallCounts ==
    SemanticWithOpenings =>
        \A w \in 0..3 :
            LET polys == CrowdedWall(w)
                walls == SelectSeq(polys, LAMBDA q : Len(q.ext) = 15 /\ q.int # <<>>)
                attached(q, sem) ==
                    Len(SelectSeq(polys, LAMBDA o : o.cls = "opening"
                                      /\ o.sem = sem /\ o.host = q.ext))
            IN  /\ Len(walls) = 2
                /\ \A n \in 1..Len(walls) :
                      LET q == walls[n]
                          first == lastBody[w] \in PointsOf(q.ext)
                                   /\ lastBody[(w + 1) % 4] \in PointsOf(q.ext)
                                   /\ lastBody[w + 4] \in PointsOf(q.ext)
                      IN  /\ Len(q.int) = IF first THEN 3 ELSE 1
                          /\ attached(q, "Door") = IF first THEN 1 ELSE 0
                          /\ attached(q, "Window") = IF first THEN 2 ELSE 1
                /\ Len(SelectSeq(polys, LAMBDA o : o.cls = "opening")) = 4

\* C15: in a semantic model every door and wall window is exactly one hole of
\* the WallSurface of its own wall and of no other surface, and exactly one
\* Door or Window surface attached to that WallSurface; the holes and the
\* opening surfaces of a wall are as many as the openings of that wall
OneHoleOneOpening == HoleAndOpeningOnOwnWall /\ CrowdedWallCounts

\* a model generated by one of the LOD2 constructors
LOD2Model == Emitted /\ lastCall.ctor \in {"LOD2Semantics", "LOD2Solid"}

\* the part lies under the overhang of the footprint the model stands on
PartCovered ==
    /\ bldg.buildingpart # <<>>
    /\ Less(bldg.xsize, lastFootprint.x)
    /\ Leq(bldg.buildingpart[1].x, bldg.ovh[1])

PartPresent == bldg.buildingpart # <<>> /\ ~PartCovered

\* the corners of the part: it stands against the east wall of the body and
\* reaches part.x beyond the east wall of the building
PartCorner(east, north, top) ==
    LET part == bldg.buildingpart[1]
    IN  <<IF east THEN Plus(Plus(bldg.origin[1], bldg.xsize), part.x)
          ELSE lastBody[1][1],
          IF north THEN Plus(Plus(bldg.origin[2], part.o), part.y)
          ELSE Plus(bldg.origin[2], part.o),
          IF top THEN Plus(bldg.origin[3], part.z) ELSE bldg.origin[3]>>

PlainEndWall == {lastBody[1], lastBody[2], lastBody[6], lastBody[5]}

ExtendedEndWall ==
    PlainEndWall \cup {PartCorner(FALSE, n, t) : n \in BOOLEAN, t \in BOOLEAN}

\* the south, east and north face of the part and its top
PartSides ==
    {{PartCorner(e, FALSE, t) : e \in BOOLEAN, t \in BOOLEAN},
     {PartCorner(TRUE, n, t) : n \in BOOLEAN, t \in BOOLEAN},
     {PartCorner(e, TRUE, t) : e \in BOOLEAN, t \in BOOLEAN}}

PartTop == {PartCorner(e, n, TRUE) : e \in BOOLEAN, n \in BOOLEAN}

\* the polygons of the model generated last around a set of corners
FacesAround(corners) == {i \in 1..Len(out) : PointsOf(out[i].ext) = corners}

\* the bundles handed to the roof constructor of the model generated last
lastEast ==
    eastSideLOD2(lastFootprint.o, lastFootprint.x, lastBody, lastCall.LOD,
                 adj.aux, bldg.buildingpart, lastCall.fp = "Fd").east_faces

Occurrences(ring) == Cardinality({i \in 1..Len(out) : out[i].ext = ring})

\* the extended end wall, the three sides and the top of the part, and every
\* face of the bundles, once each
PartGenerated ==
    LET semantic == lastCall.ctor = "LOD2Semantics"
        topSem == IF bldg.buildingpart[1].type = "Garage" THEN "RoofSurface"
                  ELSE "OuterFloorSurface"
        bundled == lastEast.rest \o lastEast.roof \o lastEast.outerfloor
    IN  /\ Cardinality(FacesAround(ExtendedEndWall)) = 1
        /\ \A i \in FacesAround(ExtendedEndWall) :
              /\ RingClosed(out[i].ext)
              /\ Len(out[i].ext) = 27
              /\ out[i].ext = lastEast.wall
              /\ semantic => out[i].sem = "WallSurface"
        /\ FacesAround(PlainEndWall) = {}
        /\ \A side \in PartSides :
              /\ Cardinality(FacesAround(side)) = 1
              /\ \A i \in FacesAround(side) :
                    /\ out[i].int = <<>>
                    /\ semantic => out[i].sem = "WallSurface"
        /\ Cardinality(FacesAround(PartTop)) = 1
        /\ \A i \in FacesAround(PartTop) :
              /\ out[i].int = <<>>
              /\ semantic => out[i].sem = topSem
        /\ Len(bundled) = 4
        /\ \A n \in 1..Len(bundled) : Occurrences(bundled[n]) = 1

\* the plain end wall and no face of a part
PartLeftOut ==
    /\ Cardinality(FacesAround(PlainEndWall)) = 1
    /\ Occurrences(lastEast.wall) = 1
    /\ lastEast.rest \o lastEast.roof \o lastEast.outerfloor = <<>>
    /\ bldg.buildingpart # <<>> =>
          /\ FacesAround(ExtendedEndWall) = {}
          /\ \A side \in PartSides \cup {PartTop} : FacesAround(side) = {}

BoxCorner(east, north, top) ==
    <<IF east THEN Plus(bldg.origin[1], bldg.xsize) ELSE bldg.origin[1],
      IF north THEN Plus(bldg.origin[2], bldg.ysize) ELSE bldg.origin[2],
      IF top THEN Plus(bldg.origin[3], bldg.zsize) ELSE bldg.origin[3]>>

BoxWalls ==
    {{BoxCorner(e, n, t) : e \in BOOLEAN, t \in BOOLEAN} : n \in BOOLEAN}
    \cup {{BoxCorner(e, n, t) : n \in BOOLEAN, t \in BOOLEAN} : e \in BOOLEAN}

BoxRoof == {BoxCorner(e, n, TRUE) : e \in BOOLEAN, n \in BOOLEAN}

BoxGround == {BoxCorner(e, n, FALSE) : e \in BOOLEAN, n \in BOOLEAN}

\* an LOD2 model of a flat building without overhangs and part, generated on
\* the footprint of the building itself
PlainFlatModel ==
    /\ LOD2Model
    /\ lastCall.fp = "F0"
    /\ bldg.roofType = "Flat"
    /\ bldg.buildingpart = <<>>
    /\ bldg.ovh = <<Zero, Zero>>

\* C17: a flat building without overhangs and part, such as the one of width
\* 5, depth 4 and height 6 at (0, 0, 0), is generated as exactly six surfaces,
\* the four walls, the roof and the ground of its box, each of them a single
\* closed ring of five points without holes
FlatBoxSixSurfaces ==
    PlainFlatModel =>
        LET semantic == lastCall.ctor = "LOD2Semantics"
        IN  /\ Len(out) = 6
            /\ \A i \in 1..6 :
                  /\ out[i].int = <<>>
                  /\ Quadrilateral(out[i].ext)
            /\ Cardinality(BoxWalls) = 4
            /\ \A wall \in BoxWalls :
                  /\ Cardinality(FacesAround(wall)) = 1
                  /\ semantic => \A i \in FacesAround(wall) : out[i].sem = "WallSurface"
            /\ Cardinality(FacesAround(BoxRoof)) = 1
            /\ semantic => \A i \in FacesAround(BoxRoof) : out[i].sem = "RoofSurface"
            /\ Cardinality(FacesAround(BoxGround)) = 1
            /\ semantic => \A i \in FacesAround(BoxGround) : out[i].sem = "GroundSurface"

\* the flat building of width 5, depth 4 and height 6 at the origin generated
\* with semantics
FlatBoxGenerated ==
    /\ PlainFlatModel
    /\ lastCall.ctor = "LOD2Semantics"
    /\ bldg = FlatBox
    /\ BoxRoof = {<<Zero, Zero, Int2R(6)>>, <<Int2R(5), Zero, Int2R(6)>>,
                  <<Int2R(5), Int2R(4), Int2R(6)>>, <<Zero, Int2R(4), Int2R(6)>>}

InteriorModel == Emitted /\ lastCall.ctor \in {"InteriorLOD0", "InteriorLOD2"}

\* the corners of the slab of storey n: the footprint of the building inset
\* by the thickness of the walls, from half a joist above the floor level to
\* half a joist below the next
SlabCorner(n, east, north, top) ==
    <<IF east THEN Minus(Plus(bldg.origin[1], bldg.xsize), bldg.wallThickness)
      ELSE Plus(bldg.origin[1], bldg.wallThickness),
      IF north THEN Minus(Plus(bldg.origin[2], bldg.ysize), bldg.wallThickness)
      ELSE Plus(bldg.origin[2], bldg.wallThickness),
      IF top THEN Minus(Times(Int2R(n), bldg.floorHeight),
                        Times(Half, bldg.joist))
      ELSE Plus(Times(Int2R(n - 1), bldg.floorHeight), Times(Half, bldg.joist))>>

SlabFloor(n) == {SlabCorner(n, e, nn, FALSE) : e \in BOOLEAN, nn \in BOOLEAN}

SlabCeiling(n) == {SlabCorner(n, e, nn, TRUE) : e \in BOOLEAN, nn \in BOOLEAN}

SlabEast(n) == {SlabCorner(n, TRUE, nn, t) : nn \in BOOLEAN, t \in BOOLEAN}

\* the south, north and west wall of the slab
SlabOtherWalls(n) ==
    {{SlabCorner(n, e, nn, t) : e \in BOOLEAN, t \in BOOLEAN} : nn \in BOOLEAN}
    \cup {{SlabCorner(n, FALSE, nn, t) : nn \in BOOLEAN, t \in BOOLEAN}}

\* the polygons of a kind in the model generated last
OfKindIn(kind) == {i \in 1..Len(out) : out[i].kind = kind}

\* a face of the slab, once, as a rectangle
PlainFace(face) ==
    /\ Cardinality(FacesAround(face)) = 1
    /\ \A i \in FacesAround(face) :
          Quadrilateral(out[i].ext) /\ out[i].int = <<>> /\ out[i].kind = "storey"

\* a face of the slab, once, drawn out around the alcove
FaceWithAlcove(face) ==
    /\ FacesAround(face) = {}
    /\ Cardinality({i \in OfKindIn("storey") :
           face \subseteq PointsOf(out[i].ext) /\ Len(out[i].ext) = 27}) = 1

AbsR(a) == IF Less(a, Zero) THEN Minus(Zero, a) ELSE a

\* the points of a ring at its lowest and at its highest elevation
LowestOf(ring) ==
    {v \in PointsOf(ring) : \A u \in PointsOf(ring) : Leq(v[3], u[3])}

HighestOf(ring) ==
    {v \in PointsOf(ring) : \A u \in PointsOf(ring) : Leq(u[3], v[3])}

\* the horizontal axis a face rises along: 1 when its lowest edge runs along
\* y, 2 when it runs along x, 0 when it does neither
RiseAxis(ring) ==
    IF \A u, v \in LowestOf(ring) : u[1] = v[1] THEN 1
    ELSE IF \A u, v \in LowestOf(ring) : u[2] = v[2] THEN 2
    ELSE 0

\* the rise of a face, its run at right angles to its lowest edge, and
\* whether it rises towards greater coordinates
SlopeOf(ring) ==
    LET a == RiseAxis(ring)
        lo == CHOOSE v \in LowestOf(ring) : TRUE
        hi == CHOOSE v \in HighestOf(ring) : TRUE
    IN  [axis |-> a,
         up |-> a # 0 /\ Less(lo[a], hi[a]),
         rise |-> Minus(hi[3], lo[3]),
         run |-> IF a = 0 THEN Zero ELSE AbsR(Minus(hi[a], lo[a]))]

Sloped(ring) ==
    /\ RiseAxis(ring) # 0
    /\ Less(Zero, SlopeOf(ring).rise)
    /\ Less(Zero, SlopeOf(ring).run)

\* the faces of the roof of the building read, on its own footprint
ExteriorRoof ==
    LET o == bldg.origin
        p == verticesBody(o, bldg.xsize, bldg.ysize, bldg.zsize, None, None, None)
        r == verticesRoof(<<o, bldg.xsize, bldg.ysize, bldg.zsize>>, bldg.h,
                          bldg.roofType, bldg.r)
        faces == roofOf(bldg.roofType, p, r, eastFacesPlain(p), FALSE, None,
                        None, None, None, None)
    IN  {faces[i].ext : i \in 1..Len(faces)}

\* the face of the roof above a face of the attic: the one that rises along
\* the same axis towards the same side
RoofAbove(ring) ==
    {e \in ExteriorRoof :
        /\ Sloped(e)
        /\ SlopeOf(e).axis = SlopeOf(ring).axis
        /\ SlopeOf(e).up = SlopeOf(ring).up}

SameSlope(a, b) ==
    Times(SlopeOf(a).rise, SlopeOf(b).run) = Times(SlopeOf(b).rise, SlopeOf(a).run)

\* an interior with an attic
AtticModel ==
    /\ Emitted
    /\ lastCall.ctor \in {"InteriorLOD1", "InteriorLOD2"}
    /\ bldg.roofType # "Flat"

AtticFaces == {out[i].ext : i \in OfKindIn("attic")}

\* C19: under every roof that is not flat, and in both interiors with an
\* attic, every sloped face of the attic has the rise over run of the face of
\* the roof above it
AtticParallelToRoof ==
    AtticModel =>
        \A a \in AtticFaces :
            Sloped(a) =>
                /\ Cardinality(RoofAbove(a)) = 1
                /\ \A e \in RoofAbove(a) : SameSlope(a, e)

\* the attic of a hipped roof among rooms, with a sloped face at each of its
\* four sides
HippedAtticGenerated ==
    /\ AtticModel
    /\ lastCall.ctor = "InteriorLOD2"
    /\ bldg.roofType = "Hipped"
    /\ {<<SlopeOf(a).axis, SlopeOf(a).up>> : a \in {f \in AtticFaces : Sloped(f)}}
         = {1, 2} \X BOOLEAN

\* the surfaces of a cityObjectMember of the i-th building of the input,
\* turned by the angle of that building about its origin
TurnedAbout(surfaces, i) ==
    [s \in 1..Len(surfaces) |->
        rotatedSurface(surfaces[s], sine_rotation(buildings[i].rotation),
                       cosine_rotation(buildings[i].rotation),
                       buildings[i].spec.origin)]

\* the step that ends the generation of a building
EndsGeneration == pc = "emit" /\ pc' = "rotated"

\* every document holds a model of the building being processed
AllGenerated ==
    /\ k > Len(Calls)
    /\ \A representation \in Representations :
          \E e \in 1..Len(CityGMLs[representation]) :
              CityGMLs[representation][e].ID = ID

\* what a step does to the cityObjectMembers of a document: those of the
\* building whose generation ends are turned, all others are left as they
\* are, and a model generated is added as it was generated
TurnsOwnOnly(representation) ==
    LET before == CityGMLs[representation]
        after == CityGMLs'[representation]
    IN  /\ Len(after) \in {Len(before), Len(before) + 1}
        /\ \A e \in 1..Len(before) :
              /\ after[e].ID = before[e].ID
              /\ after[e].surfaces =
                    IF EndsGeneration /\ before[e].ID = ID
                    THEN TurnedAbout(before[e].surfaces, buildingcounter)
                    ELSE before[e].surfaces
        /\ Len(after) = Len(before) + 1 =>
              /\ pc = "emit" /\ pc' = "emit"
              /\ after[Len(after)] = [ID |-> ID, surfaces |-> out']

\* the order of a run: the buildings are read one after the other, the
\* generation of a building ends when all its models are generated, and the
\* next building is read after that only; a run that raises ends
InTurn ==
    /\ buildingcounter' \in {buildingcounter, buildingcounter + 1}
    /\ buildingcounter' # buildingcounter
          => pc = "read" /\ pc' \in {"measure", "error"}
    /\ pc' = "read" => pc = "rotated"
    /\ pc' = "rotated" => pc = "emit" /\ AllGenerated
    /\ pc' = "emit" => pc \in {"adjust", "emit"}
    /\ buildings' = buildings

\* C20: with rotation enabled, the models of a building are rotated in the
\* one step that follows the generation of all of them, by the angle of the
\* building about its origin, in every document; no other step changes a
\* vertex written, so that no model is left unrotated or rotated again while
\* this or another building is processed
RotatedOnceInTurn ==
    [][ROTATIONENABLED =>
          InTurn /\ \A representation \in Representations :
                        TurnsOwnOnly(representation)]_vars

\* the second building of an input has been rotated by an angle of its own,
\* next to the models of the first one
SecondBuildingRotated ==
    /\ ROTATIONENABLED
    /\ pc = "rotated"
    /\ buildingcounter = 2
    /\ buildings[1].rotation # buildings[2].rotation
    /\ \A representation \in Representations :
          /\ Len(CityGMLs[representation]) = 2
          /\ CityGMLs[representation][1].ID # CityGMLs[representation][2].ID
    /\ LET last == CityGMLs[Calls[Len(Calls)].name][2].surfaces
       IN  last = TurnedAbout(out, 2) /\ last # out

\* the surfaces turned by the opposite of the angle of the i-th building of
\* the input about the origin of that building
TurnedBack(surfaces, i) ==
    [s \in 1..Len(surfaces) |->
        rotatedSurface(surfaces[s],
                       sine_rotation(Minus(Zero, buildings[i].rotation)),
                       cosine_rotation(Minus(Zero, buildings[i].rotation)),
                       buildings[i].spec.origin)]

\* the cityObjectMembers a step turns: those of the building whose generation
\* ends, in a document
TurnedIn(representation) ==
    {e \in 1..Len(CityGMLs[representation]) :
        ROTATIONENABLED /\ EndsGeneration /\ CityGMLs[representation][e].ID = ID}

\* C21: the rotation by an angle followed by the rotation by the opposite
\* angle about the same origin returns every vertex to the x, y and z it had
\* before: turning back the models the rotation step has turned gives the
\* models as they were generated
RotationUndone ==
    [][\A representation \in Representations :
          \A e \in TurnedIn(representation) :
              TurnedBack(CityGMLs'[representation][e].surfaces, buildingcounter)
                  = CityGMLs[representation][e].surfaces]_vars

\* a model has been turned by an angle that is not zero: its vertices have
\* moved, and turning it back gives the model generated
TurnedAndBack ==
    /\ ROTATIONENABLED
    /\ pc = "rotated"
    /\ sine_rotation(angle_of_rotation) # Zero
    /\ bldg.origin # <<Zero, Zero, Zero>>
    /\ LET last == CityGMLs[Calls[Len(Calls)].name][buildingcounter].surfaces
       IN  /\ \A s \in 1..Len(last) : last[s].ext # out[s].ext
           /\ TurnedBack(last, buildingcounter) = out

(***************************************************************************)
(* Doors and windows on a wall the program does not know                   *)
(***************************************************************************)
\* the door and the wall windows of b that are on no wall of 0..3
OffWall(b) == SelectSeq(b.door \o b.wallWindows, LAMBDA op : op.wall \notin {0, 1, 2, 3})

\* no document holds a model of building i
NothingStoredOf(i) ==
    \A representation \in Representations :
        \A e \in 1..Len(CityGMLs[representation]) :
            CityGMLs[representation][e].ID # buildings[i].ID

\* C23: a door or a wall window on a wall other than 0, 1, 2 and 3, a
\* negative one included, raises an error wherever openings or embrasures
\* are placed: its ring and the embrasures raise ValueError, both
\* constructors that take openings end with it, with or without overhangs,
\* and the run ends in the first pass over the building, before anything of
\* the building is stored
UnknownWallRaises ==
    \A i \in 1..Len(buildings) :
        LET b == buildings[i].spec
            pList == verticesBodyList(b.origin, b.xsize, b.ysize, b.zsize, None, None)
        IN  OffWall(b) # <<>> =>
              /\ \A n \in 1..Len(OffWall(b)) :
                    openingRing(OffWall(b)[n], pList) = ValueError
              /\ embrasuresGeometry(<<b.door, b.wallWindows>>, pList, b.embrasure)
                    = ValueError
              /\ \A ctor \in {"LOD3Semantics", "LOD3Solid"} :
                    \A ovh \in {None, b.ovh, <<Zero, Zero>>} :
                        raised(ctor, b, ovh, b.door, b.wallWindows, b.dormers, b.chimney) = "ValueError"
              /\ buildingcounter = i => pc \in {"measure", "error"}
              /\ NothingStoredOf(i)

\* the run has ended in the first pass over a building with a window on
\* wall -1
NegativeWallRaised ==
    /\ pc = "error"
    /\ \E n \in 1..Len(bldg.wallWindows) : bldg.wallWindows[n].wall = -1
    /\ OffWall(bldg) # <<>>
    /\ firstPassRaised(bldg) = "ValueError"

(***************************************************************************)
(* A roof type the program does not know                                   *)
(***************************************************************************)
UnknownRoofType(b) == b.roofType \notin RoofTypes

Constructors == {Calls[i].ctor : i \in 1..Len(Calls)}

\* C22: a roof type other than Flat, Gabled, Shed, Hipped and Pyramidal
\* raises an error in every constructor, whether it is given overhangs or
\* not: none returns
UnknownRoofTypeRaises ==
    \A i \in 1..Len(buildings) :
        LET b == buildings[i].spec
        IN  UnknownRoofType(b) =>
              \A ctor \in Constructors : \A ovh \in {None, b.ovh} :
                  raised(ctor, b, ovh, b.door, b.wallWindows, b.dormers, b.chimney) # ""

\* the run has ended in the first pass over a building with an unknown roof
\* type, for which the ridge is empty and the LOD2 solid, called without
\* overhangs as for the models LOD2.0 and LOD2.1, returns with the ground
\* face alone
UnknownRoofTypeRead ==
    /\ pc = "error"
    /\ UnknownRoofType(bldg)
    /\ firstPassRaised(bldg) = "UnboundLocalError"
    /\ verticesRoof(<<bldg.origin, bldg.xsize, bldg.ysize, bldg.zsize>>,
                    bldg.h, bldg.roofType, bldg.r) = <<>>
    /\ raised("LOD2Solid", bldg, None, bldg.door, bldg.wallWindows, <<>>, <<>>) = ""
    /\ CityGMLbuildingLOD2Solid(bldg.origin, bldg.xsize, bldg.ysize, bldg.zsize,
                                bldg.h, bldg.roofType, bldg.r, None, "solid", "2.0",
                                auxOf(bldg, Zero), <<>>, FALSE)
         = addsurface(faceBottomOf(verticesBody(bldg.origin, bldg.xsize, bldg.ysize,
                                                bldg.zsize, None, None, None)), None)

(***************************************************************************)
(* Overhangs of length zero and a ridge inset of zero                      *)
(***************************************************************************)
\* a building the program knows the roof type and the walls of, with an
\* overhang of length zero or a ridge inset of zero
ZeroLength(b) ==
    /\ ~UnknownRoofType(b)
    /\ OffWall(b) = <<>>
    /\ \/ b.ovh[1] = Zero
       \/ b.ovh[2] = Zero
       \/ b.r # None /\ b.r = Zero

\* C24: overhangs of length zero and a ridge inset of zero are accepted for
\* every roof type: no computation for such a building raises an error, and
\* without an overhang in x the eave found by the first pass is the eave of
\* the building and the projected footprint keeps its height and its rise
ZeroLengthAccepted ==
    (pc # "read" /\ ZeroLength(bldg)) =>
        /\ pc # "error"
        /\ (Adjusted /\ bldg.ovh[1] = Zero) =>
              /\ eaveDrop = Zero
              /\ measured.eaves = Plus(bldg.origin[3], bldg.zsize)
              /\ adj.F1.z = bldg.zsize
              /\ adj.F1.h = bldg.h

\* the run has ended in the interior of LOD2 with dormers of a hipped
\* building whose ridge inset is zero
ZeroRidgeInsetRaised ==
    /\ pc = "error"
    /\ ZeroLength(bldg)
    /\ bldg.roofType = "Hipped"
    /\ bldg.r = Zero
    /\ bldg.dormers # <<>>
    /\ Calls[k].name = "interior-LOD2_3"
    /\ raised("InteriorLOD2", bldg, None, <<>>, <<>>, bldg.dormers, <<>>)
          = "ZeroDivisionError"

(***************************************************************************)
(* What is carried from one building to the next                           *)
(***************************************************************************)
\* the depth of the embrasure a building's own record gives: that of its
\* last <window>, and 0 for a building without one
ownDepth(b) ==
    IF b.windows # <<>> /\ b.windows[1] # <<>>
      THEN b.windows[1][Len(b.windows[1])].depth
      ELSE Zero

\* C25: nothing persists across buildings: whatever was processed before,
\* every parameter of the building being processed is read from its own
\* record, and the values of the first pass and the derived footprints and
\* features follow from these parameters alone
NothingPersists ==
    pc \in {"measure", "adjust", "emit", "rotated"} =>
        LET b == buildings[buildingcounter]
        IN  /\ bldg = [b.spec EXCEPT !.wallWindows = wallWindowsRead(b.windows),
                                     !.embrasure = ownDepth(b)]
            /\ pc # "measure" => measured = measure(bldg)
            /\ pc \in {"emit", "rotated"} => adj = adjust(bldg, measured)

\* the second building of the input has a <windows> element without a
\* <window>, and its model with embrasures has been generated with the depth
\* of the last window of the first building
DepthOfEarlierBuildingUsed ==
    /\ Emitted
    /\ lastCall.name = "LOD3_3"
    /\ buildingcounter = 2
    /\ buildings[2].windows = << <<>> >>
    /\ bldg.wallWindows = <<>>
    /\ bldg.embrasure = ownDepth(buildings[1])
    /\ bldg.embrasure # Zero
    /\ out # CityGMLbuildingLOD3Semantics(bldg.origin, bldg.xsize, bldg.ysize,
                  bldg.zsize, bldg.h, bldg.roofType, bldg.ovh, bldg.r, bldg.door,
                  bldg.wallWindows, bldg.dormers, bldg.roofWindows, bldg.chimney,
                  Zero, 1, adj.aux, bldg.buildingpart, FALSE).out

\* the Solids of the interior generated last
lastInteriorSolids ==
    InteriorLOD2Solids(bldg.origin, bldg.xsize, bldg.ysize, bldg.zsize, bldg.h,
                       bldg.floors, bldg.floorHeight, bldg.roofType, bldg.r,
                       bldg.wallThickness, bldg.joist, adj.aux,
                       bldg.buildingpart, dormersOf(lastCall))

EmittedInterior == Emitted /\ lastCall.ctor = "InteriorLOD2"

\* C26: every Solid of the interior with storeys (the room of each storey,
\* with an alcove and with dormers, the garage, the attic under every roof
\* that is not flat) is a closed shell: every directed edge is written once
\* and its opposite is written once by another face
InteriorSolidsClosed ==
    EmittedInterior =>
        \A i \in 1..Len(lastInteriorSolids) : Closed(lastInteriorSolids[i])

\* the interior of a building with a pyramidal roof and no dormers has been
\* generated, and its attic holds every face twice
PyramidalAtticWrittenTwice ==
    /\ EmittedInterior
    /\ lastCall.name = "interior-LOD2_2"
    /\ bldg.roofType = "Pyramidal"
    /\ out = Concat(lastInteriorSolids)
    /\ LET attic == lastInteriorSolids[Len(lastInteriorSolids)]
       IN  /\ attic[1].kind = "attic"
           /\ Len(attic) = 10
           /\ \A i \in 1..Len(attic) : \E j \in 1..Len(attic) :
                 j # i /\ attic[j].ext = attic[i].ext
           /\ ~Closed(attic)

\* the six or eight vertices are points
Placed(d, n) == \A i \in 0..(n - 1) : Len(d[i]) = 3

FourSlopedRoof(b) ==
    /\ b.roofType \in {"Hipped", "Pyramidal"}
    /\ Less(Zero, b.r)
    /\ \A n \in 1..Len(b.chimney) : b.chimney[n].side \in 0..3
    /\ \A n \in 1..Len(b.dormers) : b.dormers[n].side \in 0..3
    /\ \A n \in 1..Len(b.roofWindows) : b.roofWindows[n].side \in 0..3

\* the dormers and roof windows of b are placed: six points each
DormersPlaced(b) ==
    LET pList == verticesBodyList(b.origin, b.xsize, b.ysize, b.zsize, None, None)
        feats == b.dormers \o b.roofWindows
        dv == dormerVertices(feats, pList, b.h, b.roofType, b.xsize, b.r)
    IN  \A n \in 1..Len(feats) : Placed(dv[n].d, 6)

\* the chimneys of b are placed: eight points each, the cap at one elevation
ChimneysPlaced(b) ==
    LET pList == verticesBodyList(b.origin, b.xsize, b.ysize, b.zsize, None, None)
        cv == chimneyVertices(b.chimney, pList, b.h, b.roofType, b.xsize, b.r)
    IN  \A n \in 1..Len(b.chimney) :
            /\ cv[n] # IndexError
            /\ Placed(cv[n].d, 8)
            /\ \A i \in 5..7 : cv[n].d[i][3] = cv[n].d[4][3]

\* C27: on a hipped or pyramidal roof a dormer or roof window on any of the
\* sides 0, 1, 2, 3 is placed as six points and a chimney on any of these
\* sides as eight points with its cap at one elevation, and placing them
\* raises no error
FeaturePlacementTotal ==
    pc # "read" /\ FourSlopedRoof(bldg) =>
        /\ DormersPlaced(bldg)
        /\ ChimneysPlaced(bldg)
        /\ firstPassRaised(bldg) # "IndexError"

\* the first pass over a building with a chimney on the north slope of a
\* hipped roof has raised IndexError, after its roof windows on the south
\* and west slopes were placed
ChimneyOnHipEndRaised ==
    /\ pc = "error"
    /\ bldg.roofType = "Hipped"
    /\ FourSlopedRoof(bldg)
    /\ bldg.chimney[1].side = 0
    /\ {bldg.roofWindows[n].side : n \in 1..Len(bldg.roofWindows)} = {2, 3}
    /\ DormersPlaced(bldg)
    /\ ~ChimneysPlaced(bldg)
    /\ firstPassRaised(bldg) = "IndexError"
    /\ NothingStoredOf(buildingcounter)

\* the vertices of dormers, roof windows and chimneys on the body of a
\* footprint
DormersOn(f, feats) ==
    dormerVertices(feats, verticesBodyList(f.o, f.x, f.y, f.z, None, None), f.h,
                   bldg.roofType, f.x, f.r)

ChimneysOn(f, feats) ==
    chimneyVertices(feats, verticesBodyList(f.o, f.x, f.y, f.z, None, None), f.h,
                    bldg.roofType, f.x, f.r)

DormersInPlace ==
    \A n \in 1..Len(bldg.dormers) :
        DormersOn(adj.F1, adj.dormers_ovh)[n].d = DormersOn(adj.F0, bldg.dormers)[n].d

RoofWindowsInPlace ==
    \A n \in 1..Len(bldg.roofWindows) :
        DormersOn(adj.F1, adj.roofWindows_ovh)[n].d
            = DormersOn(adj.F0, bldg.roofWindows)[n].d

ChimneysInPlace ==
    \A n \in 1..Len(bldg.chimney) :
        ChimneysOn(adj.F1, adj.chimney_ovh)[n].d = ChimneysOn(adj.F0, bldg.chimney)[n].d

\* C28: the vertices of every dormer, roof window and chimney computed from
\* the adjusted origin of the feature on the body of the overhang-extended
\* footprint are the vertices computed from its original origin on the
\* original body
AdjustedFeaturesInPlace ==
    Adjusted => DormersInPlace /\ RoofWindowsInPlace /\ ChimneysInPlace

\* the model with semantics of a gabled building with overhangs has been
\* generated on the overhang-extended footprint with a chimney that stands
\* on the roof, at another place than on the original body, while its
\* dormer is where it was
ChimneyMoved ==
    /\ DetailedPitched
    /\ lastCall.fp = "F1"
    /\ bldg.roofType = "Gabled"
    /\ Less(Zero, bldg.ovh[1])
    /\ bldg.dormers # <<>> /\ DormersInPlace
    /\ lastChimneys = ChimneysOn(adj.F1, adj.chimney_ovh)
    /\ lastChimneys # <<>>
    /\ FeetOnSlope(chimneyOf(lastCall), lastChimneys)
    /\ lastChimneys[1].d # ChimneysOn(adj.F0, bldg.chimney)[1].d
    /\ lastChimneys[1].d[1][1]
         = Plus(ChimneysOn(adj.F0, bldg.chimney)[1].d[1][1],
                Minus(bldg.ovh[1], Minus(bldg.zsize, measured.eaves)))

\* a model with a roof has been generated on the overhang-projected footprint
RoofOnProjectedFootprint ==
    /\ Emitted
    /\ lastCall.fp = "F1"
    /\ lastCall.ctor \in {"LOD2Solid", "LOD2Semantics", "LOD3Semantics", "LOD3Solid"}

\* the elevation of the outer edge of the overhangs of the building
OverhangEdge ==
    Minus(Plus(bldg.origin[3], bldg.zsize),
          ovhzOf(bldg.xsize, bldg.h, bldg.roofType, bldg.ovh[1]))

\* C29: whatever the elevation of the origin, the upper ring of the body
\* built on the overhang-projected footprint lies at origin.z + z - ovhz, the
\* elevation of the outer edge of the overhangs that the first pass returned
\* as the corrected eave
EaveDatum ==
    RoofOnProjectedFootprint =>
        /\ measured.eaves = OverhangEdge
        /\ \A i \in 4..7 : lastBody[i][3] = OverhangEdge
        /\ Plus(lastFootprint.o[3], lastFootprint.z) = measured.eaves

\* the model with semantics of a gabled building whose origin lies 5 above
\* the datum has been generated on the overhang-projected footprint: its
\* walls end 5 above the outer edge of the overhangs, above the ridge, to
\* which the roof descends
EaveRaisedByOrigin ==
    /\ RoofOnProjectedFootprint
    /\ lastCall.name = "LOD3_0"
    /\ bldg.origin[3] = Int2R(5)
    /\ Less(Zero, bldg.ovh[1])
    /\ measured.eaves = OverhangEdge
    /\ \A i \in 4..7 : lastBody[i][3] = Plus(OverhangEdge, bldg.origin[3])
    /\ Highest(CoordsOf(RoofFaces, 3)) = Plus(measured.eaves, bldg.origin[3])
    /\ Lowest(CoordsOf(RoofFaces, 3)) = RidgeOfInput
    /\ Less(lastFootprint.h, Zero)

\* a detailed model has been generated
Detailed ==
    /\ Emitted
    /\ lastCall.ctor \in {"LOD3Semantics", "LOD3Solid"}

\* the outer rings of some polygons
OutlinesOf(polys) == {polys[i].ext : i \in 1..Len(polys)}

\* every dormer passed to the constructor has its cutout in the roof and its
\* faces
DormersEmitted ==
    /\ \A n \in 1..Len(lastDormers) :
          cutoutRing(lastDormers[n].dGML) \in FeetOf(out)
    /\ dormersOf(lastCall) # <<>> => \E i \in 1..Len(out) : out[i].kind = "dormer"

\* every roof window passed to the constructor has its cutout in the roof
\* and its pane
RoofWindowsEmitted ==
    \A n \in 1..Len(lastRoofWindows) :
        /\ cutoutRing(lastRoofWindows[n].dGML) \in FeetOf(out)
        /\ roofWindowRing(lastRoofWindows[n].dGML) \in OutlinesOf(out)

\* C30: the detailed constructors, with semantics and solid, generate the
\* geometry and the roof cutout of every dormer and of every roof window
\* passed to them, also where both are passed
DormersAndRoofWindowsEmitted ==
    (Detailed /\ dormersOf(lastCall) # <<>> /\ roofWindowsOf(lastCall) # <<>>)
        => DormersEmitted /\ RoofWindowsEmitted

\* the model with semantics of a building with dormers and a roof window has
\* been generated with the dormers and their cutouts and without the roof
\* window: it is the model of the building without roof windows
RoofWindowDroppedForDormers ==
    /\ Detailed
    /\ lastCall.name = "LOD3_3"
    /\ dormersOf(lastCall) # <<>>
    /\ roofWindowsOf(lastCall) # <<>>
    /\ DormersEmitted
    /\ \A n \in 1..Len(lastRoofWindows) :
          /\ cutoutRing(lastRoofWindows[n].dGML) \notin FeetOf(out)
          /\ roofWindowRing(lastRoofWindows[n].dGML) \notin OutlinesOf(out)
    /\ out = CityGMLbuildingLOD3Semantics(bldg.origin, bldg.xsize, bldg.ysize,
                 bldg.zsize, bldg.h, bldg.roofType, bldg.ovh, bldg.r, bldg.door,
                 bldg.wallWindows, bldg.dormers, <<>>, bldg.chimney,
                 bldg.embrasure, 1, adj.aux, bldg.buildingpart, FALSE).out

====
